---- MODULE Spec2Model ----
(***************************************************************************)
(* Verification model of amc-peripheral.                                   *)
(*                                                                         *)
(*   SpecAgent : one top-level agent query (Discord /bot, in-game /bot,    *)
(*               devbot @mention) driving the agentic tool-calling loop    *)
(*               `_call_llm_with_tools` and `_execute_tool`.               *)
(*   SpecQuery : the read-only SQL tool `execute_raw_query`.               *)
(*   SpecRelay : one inbound Discord message taken through every flow of   *)
(*               `TranslationCog.on_message` and the tasks it spawns, and  *)
(*               the relay's own output delivered back to the handler.     *)
(*   SpecAppend : the rolling append applied to one RollingContext, one    *)
(*               entry after another.                                      *)
(*   SpecContext : several inbound messages whose handlers and tasks       *)
(*               interleave on the three RollingContexts.                  *)
(*   SpecFraming : texts framed by the relays and parsed back by           *)
(*               `extract_username_and_content`.                           *)
(*   SpecLimiter : `RateLimiter.check` called as the clock advances.       *)
(*   SpecRadio : `RadioCog.request_song` calls interleaving at their       *)
(*               awaits.                                                   *)
(*   SpecSplit : `split_markdown` applied to short texts.                  *)
(*   SpecLanguage : `/set-language` and the context-menu translations.     *)
(*   SpecTools : `CodebaseTools.read_file` and `list_directory` on a small *)
(*               file tree.                                                *)
(*                                                                         *)
(* Text is modelled as a sequence of one-character strings.  A Conversation*)
(* message keeps its role and its tool-call ids; its free text is not kept.*)
(***************************************************************************)
EXTENDS Integers, Sequences, FiniteSets, TLC

\* ------------------------------------------------------------------ bounds
\* most tool calls carried by one model response
MaxToolCalls == 2
\* most model responses of one loop run that carry more than one tool call
MaxMulti == 1

\* ----------------------------------------------------------- program state
VARIABLES
    handler,        \* which top-level handler runs: helper_cmd, on_message, _handle_query
    interaction,    \* request context handed to the loop (knowledge agent)
    request,        \* shape of the inbound request (devbot gates)
    hpc,            \* position of the handler
    replies,        \* user-visible replies sent by the handler
    bot_calls,      \* KnowledgeCog.bot_calls: times (minutes) of accepted in-game queries
    now,            \* wall clock, minutes
    messages,       \* the Conversation
    iteration,      \* loop counter
    lpc,            \* position of _call_llm_with_tools
    llm_calls,      \* model invocations made by this loop run
    tool_calls,     \* response_message.tool_calls: ids of the current assistant message
    tc,             \* index of the tool call the for-loop is at
    function_name,  \* tool_call.function.name of the call in progress
    function_args,  \* tool_call.function.arguments of the call in progress
    outcome,        \* what the collaborator did in the last tool execution
    tool_result,    \* result of the last _execute_tool
    called,         \* collaborator invoked by the last _execute_tool
    tool_execs,     \* _execute_tool invocations of this loop run
    started,        \* tool-call ids in the order their execution started
    response,       \* shape of the last model response
    loop_result,    \* text returned by the loop
    exc,            \* exception that left the loop
    multi_used,     \* responses with more than one tool call so far
    next_id,        \* next fresh tool-call id of the Language Model Service
    sql,            \* execute_raw_query: the statement
    qpc,            \* execute_raw_query: position
    query_result,   \* execute_raw_query: returned dict
    db_opened       \* execute_raw_query: sqlite3.connect was reached

VARIABLES
    cog_messages,       \* TranslationCog.messages: game-chat RollingContext
    general_messages,   \* TranslationCog.general_messages
    eco_game_messages,  \* TranslationCog.eco_game_messages
    message,        \* the inbound discord.Message: channel, author, content
    rpc,            \* position of TranslationCog.on_message
    flow,           \* relay flow the message entered
    lang,           \* language of the source channel
    translation,    \* res.translation of the pivot call (the text itself for English)
    ti,             \* index of the target the fan-out loop is at
    translation_calls, \* Language Model Service calls issued for the message
    sends,          \* transport sends that published a text
    announces,      \* in-game announcements made
    attempted,      \* target channels whose translation step was reached
    failed,         \* target channels whose translation call raised
    logged,         \* errors caught and logged
    tpc,            \* position of the fire-and-forget task of the message
    result,         \* languages with a non-empty text in the multi translation
    uncached,       \* channels bot.get_channel does not find
    channel_history,\* earlier game-chat messages, newest first
    res_target,     \* res_target.translation / result.translation awaiting its send
    delivered,      \* published messages delivered back to on_message
    ctx_handlers,   \* SpecContext: flow and position of each concurrent handler
    ctx_arrivals,   \* SpecContext: inbound messages received so far
    ctx_log         \* SpecAppend: every entry appended, in order

VARIABLES
    framing_input,  \* SpecFraming: sender name, content and shape of the text
    framing_raw,    \* SpecFraming: the text handed to extract_username_and_content
    framing_parsed, \* SpecFraming: the (username, content) it returned
    limiter,        \* SpecLimiter: a RateLimiter: max_calls, period, calls
    clock,          \* SpecLimiter: datetime.now(), minutes
    checks,         \* SpecLimiter: every check() made: when, and what it returned
    user_requests,      \* RadioCog.user_requests: requester -> times of accepted requests
    recent_song_queue,  \* RadioCog.recent_song_queue: deque(maxlen=10) of titles
    song_requests,      \* SpecRadio: the request_song calls in progress, each with its position
    song_calls,         \* SpecRadio: request_song calls made so far
    song_ended,         \* SpecRadio: the ways request_song calls have ended so far
    radio_now,          \* SpecRadio: datetime.now(self.local_tz), minutes
    downloads,          \* SpecRadio: files written by ydl.download
    lq_pushes,          \* SpecRadio: LiquidsoapController.push_to_queue calls
    split_input,    \* SpecSplit: the text and max_length handed to split_markdown
    split_chunks,   \* SpecSplit: the chunks it returned
    user_language_preferences, \* table user_language_preferences: user id -> language
    resolved        \* SpecLanguage: the last context-menu translation: user, locale, target

VARIABLES
    tools_call,     \* SpecTools: the last CodebaseTools call: tool, path, recursive
    tools_result,   \* SpecTools: what it returned, and the location it resolved
    tools_accessed  \* SpecTools: every location read or listed so far

agentVars == <<handler, interaction, request, hpc, replies, bot_calls, now,
               messages, iteration, lpc, llm_calls, tool_calls, tc,
               function_name, function_args, outcome, tool_result, called,
               tool_execs, started, response, loop_result, exc, multi_used,
               next_id>>
queryVars == <<sql, qpc, query_result, db_opened>>
contextVars == <<cog_messages, general_messages, eco_game_messages>>
historyVars == <<channel_history>>
relayVars == <<message, rpc, flow, lang, translation, ti, translation_calls, sends,
               announces,
               attempted, failed, logged, tpc, result, uncached, res_target,
               delivered>>
handlersVars == <<ctx_handlers, ctx_arrivals, ctx_log>>
framingVars == <<framing_input, framing_raw, framing_parsed>>
\* the utilities, each with a specification of its own
limiterVars == <<limiter, clock, checks>>
radioVars == <<user_requests, recent_song_queue, song_requests, song_calls,
               song_ended, radio_now, downloads, lq_pushes>>
splitVars == <<split_input, split_chunks>>
languageVars == <<user_language_preferences, resolved>>
toolsVars == <<tools_call, tools_result, tools_accessed>>
utilVars == <<framingVars, limiterVars, radioVars, splitVars, languageVars, toolsVars>>
vars == <<agentVars, queryVars, contextVars, historyVars, relayVars, handlersVars,
          utilVars>>

\* everything outside the agent / outside the query tool / outside the relay
nonAgentVars == <<queryVars, contextVars, historyVars, relayVars, handlersVars, utilVars>>
nonQueryVars == <<agentVars, contextVars, historyVars, relayVars, handlersVars, utilVars>>
nonRelayVars == <<agentVars, queryVars, handlersVars, utilVars>>
nonContextVars == <<agentVars, queryVars, relayVars, utilVars>>
\* the agent, the query tool and the relay together
cogVars == <<agentVars, queryVars, contextVars, historyVars, relayVars, handlersVars>>

\* ------------------------------------------------------------ text helpers
LowerCase == <<"a","b","c","d","e","f","g","h","i","j","k","l","m",
               "n","o","p","q","r","s","t","u","v","w","x","y","z">>
UpperCase == <<"A","B","C","D","E","F","G","H","I","J","K","L","M",
               "N","O","P","Q","R","S","T","U","V","W","X","Y","Z">>
Whitespace == {" ", "\t", "\n", "\r"}

\* str.upper(), character by character
upper_char(c) ==
    IF \E i \in 1..26 : LowerCase[i] = c
    THEN UpperCase[CHOOSE i \in 1..26 : LowerCase[i] = c]
    ELSE c
upper(s) == [i \in 1..Len(s) |-> upper_char(s[i])]

\* str.strip(): drop leading and trailing whitespace
strip(s) ==
    LET keep == {i \in 1..Len(s) : s[i] \notin Whitespace}
    IN  IF keep = {} THEN <<>>
        ELSE LET lo == CHOOSE i \in keep : \A j \in keep : i <= j
                 hi == CHOOSE i \in keep : \A j \in keep : j <= i
             IN  SubSeq(s, lo, hi)

\* Python `kw in s`
contains(s, kw) ==
    \E i \in 1..(Len(s) - Len(kw) + 1) : SubSeq(s, i, i + Len(kw) - 1) = kw
\* str.startswith
startswith(s, p) == Len(s) >= Len(p) /\ SubSeq(s, 1, Len(p)) = p

\* ------------------------------------------------ game_db.execute_raw_query
SELECT == <<"S", "E", "L", "E", "C", "T">>
BLOCKED_KEYWORDS == << <<"A", "T", "T", "A", "C", "H">>,
                       <<"P", "R", "A", "G", "M", "A">>,
                       <<"L", "O", "A", "D", "_", "E", "X", "T", "E", "N", "S", "I", "O", "N">>,
                       <<"D", "E", "T", "A", "C", "H">> >>

\* the first blocked keyword found, in list order (0: none)
first_blocked(sql_upper) ==
    LET hits == {k \in 1..Len(BLOCKED_KEYWORDS) : contains(sql_upper, BLOCKED_KEYWORDS[k])}
    IN  IF hits = {} THEN 0 ELSE CHOOSE k \in hits : \A j \in hits : k <= j

\* variant: the denylist is matched against the text as written, not upper-cased
query_guard_case_sensitive(statement) ==
    LET sql_upper == upper(strip(statement))
    IN  IF first_blocked(strip(statement)) # 0
        THEN [error |-> "Query contains blocked keyword", keyword |-> first_blocked(strip(statement))]
        ELSE IF ~startswith(sql_upper, SELECT)
        THEN [error |-> "Only SELECT queries are allowed", keyword |-> 0]
        ELSE [error |-> "", keyword |-> 0]

\* the checks made before the database is opened
query_guard(statement) ==
    LET sql_upper == upper(strip(statement))
    IN  IF first_blocked(sql_upper) # 0
        THEN [error |-> "Query contains blocked keyword", keyword |-> first_blocked(sql_upper)]
        ELSE IF ~startswith(sql_upper, SELECT)
        THEN [error |-> "Only SELECT queries are allowed", keyword |-> 0]
        ELSE [error |-> "", keyword |-> 0]

MAX_ROWS == 100

\* what sqlite does with an admitted statement: rows available, or an error
DbOutcomes == {[raises |-> "", rows |-> 0], [raises |-> "", rows |-> 1],
               [raises |-> "", rows |-> MAX_ROWS], [raises |-> "", rows |-> MAX_ROWS + 1],
               [raises |-> "OperationalError", rows |-> 0],
               [raises |-> "Exception", rows |-> 0]}

NoResult == [kind |-> "none", error |-> "", keyword |-> 0, count |-> 0, truncated |-> FALSE]

\* the dict execute_raw_query returns for a statement and a database outcome
raw_query_result(statement, db) ==
    LET g == query_guard(statement)
    IN  IF g.error # ""
        THEN [kind |-> "error", error |-> g.error, keyword |-> g.keyword,
              count |-> 0, truncated |-> FALSE]
        ELSE IF db.raises = "OperationalError"
        THEN [kind |-> "error", error |-> "SQL error", keyword |-> 0,
              count |-> 0, truncated |-> FALSE]
        ELSE IF db.raises # ""
        THEN [kind |-> "error", error |-> "Query failed", keyword |-> 0,
              count |-> 0, truncated |-> FALSE]
        ELSE [kind |-> "results", error |-> "", keyword |-> 0,
              count |-> IF db.rows > MAX_ROWS THEN MAX_ROWS ELSE db.rows,
              truncated |-> db.rows > MAX_ROWS]

\* statements handed to the tool: leading text, first word, rest, trailing text
Leads == {<<>>, <<" ">>, <<"\n", "\t">>}
Heads == {<<"S", "E", "L", "E", "C", "T">>, <<"s", "e", "l", "e", "c", "t">>,
          <<"S", "e", "l", "e", "c", "t">>, <<"S", "E", "L", "E", "C">>,
          <<"D", "R", "O", "P">>, <<"W", "I", "T", "H">>}
Rests == {<<" ", "*", " ", "F", "R", "O", "M", " ", "v", "e", "h", "i", "c", "l", "e", "s">>,
          <<" ", "*", " ", "f", "r", "o", "m", " ", "x", ";", " ", "A", "T", "T", "A", "C", "H", " ", "'", "y", "'", " ", "a", "s", " ", "z">>,
          <<" ", "T", "A", "B", "L", "E", " ", "x">>,
          <<" ", "*", " ", "f", "r", "o", "m", " ", "a", "t", "t", "a", "c", "h", "m", "e", "n", "t", "s">>,
          <<" ", "1", ";", " ", "d", "e", "t", "a", "c", "h", " ", "z">>,
          <<" ", "l", "o", "a", "d", "_", "e", "x", "t", "e", "n", "s", "i", "o", "n", "(", "1", ")">>,
          <<" ", "1", ";", "P", "r", "a", "g", "m", "a", " ", "x">>,
          <<" ", "1">>, <<>>}
Trails == {<<>>, <<" ", "\n">>, <<";">>}
Statements == {l \o h \o r \o t : l \in Leads, h \in Heads, r \in Rests, t \in Trails}

\* ------------------------------------------------------------- tool layer
KnowledgeTools == {"create_poll", "create_scheduled_event", "query_game_database",
                   "get_currently_playing_song", "get_current_subsidies",
                   "get_server_commands"}
DevBotTools == {"search_files", "read_file", "grep_search", "list_directory",
                "nix_hash_url"}
\* a name no branch of _execute_tool knows
UnknownTool == "no_such_tool"

\* shapes of tool_call.function.arguments: text that is not JSON, JSON that
\* is not an object, an object without the tool's keys, an object with them
\* (for query_game_database: with an admitted / a refused statement)
ArgShapes(name) ==
    {"invalid_json", "non_object", "missing_required", "complete"}
        \cup (IF name = "query_game_database" THEN {"complete_blocked"} ELSE {})

AdmittedStatement ==
    <<"S", "E", "L", "E", "C", "T", " ", "*", " ", "F", "R", "O", "M", " ", "v", "e", "h", "i", "c", "l", "e", "s">>
RefusedStatement ==
    <<"s", "e", "l", "e", "c", "t", " ", "*", " ", "f", "r", "o", "m", " ", "x", ";", " ", "A", "T", "T", "A", "C", "H", " ", "'", "y", "'", " ", "a", "s", " ", "z">>

\* discord_utils: both creators catch every exception and return "Error: ..."
actual_discord_poll_creator(args, out) ==
    IF args = "complete" /\ out = "ok" THEN "ok" ELSE "error_text"
actual_discord_event_creator(args, out) ==
    IF args = "complete" /\ out = "ok" THEN "ok" ELSE "error_text"

\* the admin check of create_scheduled_event
is_admin(ctx) == ctx = "admin_member"

\* the try-block of KnowledgeCog._execute_tool; result "RAISE" is an exception
knowledge_tool_body(name, args, ctx, out) ==
    CASE name = "create_poll" ->
            IF args = "non_object"
            THEN [result |-> "RAISE", called |-> ""]
            ELSE [result |-> actual_discord_poll_creator(args, out),
                  called |-> "actual_discord_poll_creator"]
      [] name = "create_scheduled_event" ->
            IF ~is_admin(ctx)
            THEN [result |-> "permission_denied", called |-> ""]
            ELSE IF args = "non_object"
            THEN [result |-> "RAISE", called |-> ""]
            ELSE [result |-> actual_discord_event_creator(args, out),
                  called |-> "actual_discord_event_creator"]
      [] name = "query_game_database" ->
            IF args = "non_object"
            THEN [result |-> "RAISE", called |-> ""]
            ELSE IF args = "missing_required"
            THEN [result |-> "error_text", called |-> ""]
            ELSE LET statement == IF args = "complete" THEN AdmittedStatement
                                                       ELSE RefusedStatement
                     db == IF out = "ok" THEN [raises |-> "", rows |-> 1]
                                         ELSE [raises |-> "OperationalError", rows |-> 0]
                 IN  [result |-> IF raw_query_result(statement, db).kind = "error"
                                 THEN "error_text" ELSE "ok",
                      called |-> "execute_raw_query"]
      [] name = "get_currently_playing_song" ->
            \* get_current_song swallows a failed request and returns None
            [result |-> IF out = "ok" THEN "ok" ELSE "error_text", called |-> "get_current_song"]
      [] name = "get_current_subsidies" ->
            [result |-> IF out = "fails" THEN "RAISE" ELSE "ok", called |-> "http_session.get"]
      [] name = "get_server_commands" ->
            [result |-> CASE out = "fails" -> "RAISE"
                          [] out = "bad_status" -> "error_text"
                          [] OTHER -> "ok",
             called |-> "http_session.get"]
      [] OTHER -> [result |-> "error_json", called |-> ""]

\* variant: no except clause around the tool dispatch
catch_exception_missing(r) == r

\* except Exception: return json.dumps({"error": ...})
catch_exception(r) ==
    IF r.result = "RAISE" THEN [result |-> "error_json", called |-> r.called] ELSE r

knowledge_execute_tool(name, args, ctx, out) ==
    catch_exception(knowledge_tool_body(name, args, ctx, out))

\* codebase_tools: every method catches its own exceptions and returns its
\* own error value: text (read_file), a list (search, grep, list) or a dict
CodebaseTools(name, out) ==
    IF out = "ok" THEN "ok"
    ELSE CASE name = "read_file" -> "error_text"
           [] name = "nix_hash_url" -> "error_json"
           [] OTHER -> "error_list"

\* the try-block of DevBotCog._execute_tool
devbot_tool_body(name, args, out) ==
    CASE name \in {"search_files", "read_file", "grep_search", "nix_hash_url"} ->
            IF args \in {"non_object", "missing_required"}
            THEN [result |-> "RAISE", called |-> ""]
            ELSE [result |-> CodebaseTools(name, out), called |-> "CodebaseTools"]
      [] name = "list_directory" ->
            IF args = "non_object"
            THEN [result |-> "RAISE", called |-> ""]
            ELSE [result |-> CodebaseTools(name, out), called |-> "CodebaseTools"]
      [] OTHER -> [result |-> "error_json", called |-> ""]

devbot_execute_tool(name, args, out) ==
    catch_exception(devbot_tool_body(name, args, out))

\* _execute_tool of the agent a handler belongs to
execute_tool(h, name, args, ctx, out) ==
    IF h = "_handle_query" THEN devbot_execute_tool(name, args, out)
                           ELSE knowledge_execute_tool(name, args, ctx, out)

ToolNames(h) ==
    (IF h = "_handle_query" THEN DevBotTools ELSE KnowledgeTools) \cup {UnknownTool}

\* what the collaborator behind a tool can do: succeed, fail, or (the
\* commands endpoint) answer with a status other than 200
Outcomes(name) ==
    {"ok", "fails"} \cup (IF name = "get_server_commands" THEN {"bad_status"} ELSE {})

\* ------------------------------------------------------------- loop layer
KnowledgeMaxIterations == 10
DevBotMaxIterations == 20
max_iterations(h) ==
    IF h = "_handle_query" THEN DevBotMaxIterations ELSE KnowledgeMaxIterations

EmptyResponseText == "I received an empty response from my AI backend."
NoContentText == "I don't have a response."
CappedText == "I'm sorry, I couldn't complete your request due to complexity. Please try simplifying your question."
\* stands for the text of a model answer
AnswerText == "<response_message.content>"

PlainMessage(r) == [role |-> r, tool_calls |-> <<>>, tool_call_id |-> 0]
AssistantMessage(ids) == [role |-> "assistant", tool_calls |-> ids, tool_call_id |-> 0]
ToolMessage(id) == [role |-> "tool", tool_calls |-> <<>>, tool_call_id |-> id]

\* ------------------------------------------------------- idle components
AgentIdle ==
    /\ handler = "none" /\ interaction = "none" /\ request = "none"
    /\ hpc = "idle" /\ replies = 0 /\ bot_calls = <<>> /\ now = 0
    /\ messages = <<>> /\ iteration = 0 /\ lpc = "idle" /\ llm_calls = 0
    /\ tool_calls = <<>> /\ tc = 0 /\ function_name = "" /\ function_args = ""
    /\ outcome = "" /\ tool_result = "" /\ called = "" /\ tool_execs = 0
    /\ started = <<>> /\ response = "none" /\ loop_result = "" /\ exc = ""
    /\ multi_used = 0 /\ next_id = 1
QueryIdle ==
    /\ sql = <<>> /\ qpc = "idle" /\ query_result = NoResult /\ db_opened = FALSE
\* no inbound message: `message` holds no channel, no author, empty content
NoChannel == <<"none", "*">>
RelayIdle ==
    /\ message = [channel |-> NoChannel, author |-> "none", content |-> <<>>]
    /\ rpc = "idle" /\ flow = "none" /\ lang = ""
    /\ translation = <<>> /\ ti = 0 /\ translation_calls = <<>> /\ sends = <<>>
    /\ announces = <<>> /\ attempted = {} /\ failed = {} /\ logged = 0
    /\ tpc = "none" /\ result = {} /\ uncached = {}
    /\ res_target = <<>> /\ delivered = 0
ContextIdle ==
    /\ cog_messages = <<>> /\ general_messages = <<>> /\ eco_game_messages = <<>>
    /\ channel_history = <<>>
    /\ ctx_handlers = <<>> /\ ctx_arrivals = 0 /\ ctx_log = <<>>
\* a value no text, record or number of the program equals
Unset == <<"unset">>
\* extract_username_and_content has returned nothing yet
NotParsed == [username |-> Unset, content |-> <<>>]
FramingIdle ==
    /\ framing_input = [name |-> <<>>, content |-> <<>>, shape |-> "none", stamped |-> FALSE]
    /\ framing_raw = Unset /\ framing_parsed = NotParsed
LimiterIdle ==
    /\ limiter = [max_calls |-> 0, period |-> 0, calls |-> <<>>]
    /\ clock = 0 /\ checks = <<>>
RadioIdle ==
    /\ user_requests = <<>> /\ recent_song_queue = <<>> /\ song_requests = <<>>
    /\ song_calls = 0 /\ song_ended = {}
    /\ radio_now = 0 /\ downloads = <<>> /\ lq_pushes = <<>>
SplitIdle ==
    /\ split_input = [text |-> <<>>, max_length |-> 0] /\ split_chunks = Unset
LanguageIdle ==
    /\ user_language_preferences = <<>>
    /\ resolved = [user |-> 0, locale |-> "", saved |-> "", target_lang |-> ""]
ToolsIdle ==
    /\ tools_call = [tool |-> "none", path |-> <<>>, recursive |-> FALSE]
    /\ tools_result = [kind |-> "none", location |-> <<>>, entries |-> {}]
    /\ tools_accessed = {}
UtilIdle ==
    FramingIdle /\ LimiterIdle /\ RadioIdle /\ SplitIdle /\ LanguageIdle /\ ToolsIdle
\* the utilities other than the language preferences
restVars == <<framingVars, limiterVars, radioVars, splitVars, toolsVars>>
RestIdle == FramingIdle /\ LimiterIdle /\ RadioIdle /\ SplitIdle /\ ToolsIdle
CogsIdle == AgentIdle /\ QueryIdle /\ RelayIdle /\ ContextIdle

\* ------------------------------------------------ SpecQuery: the SQL tool
InitQuery ==
    /\ sql \in Statements
    /\ qpc = "call"
    /\ query_result = NoResult
    /\ db_opened = FALSE
    /\ AgentIdle /\ RelayIdle /\ ContextIdle /\ UtilIdle

\* one call of execute_raw_query(sql)
execute_raw_query ==
    /\ qpc = "call"
    /\ \E db \in DbOutcomes :
          /\ query_result' = raw_query_result(sql, db)
          /\ db_opened' = (query_guard(sql).error = "")
    /\ qpc' = "returned"
    /\ UNCHANGED sql
    /\ UNCHANGED nonQueryVars

NextQuery == execute_raw_query
SpecQuery == InitQuery /\ [][NextQuery]_vars

\* ------------------------------------------- SpecAgent: one agent query
BOT_RATE_LIMIT_PERIOD == 10
BOT_RATE_LIMIT_MAX == 100

\* n accepted queries recorded at minute t
Calls(n, t) == [i \in 1..n |-> t]

InitAgent ==
    /\ handler \in {"helper_cmd", "on_message", "_handle_query"}
    /\ interaction \in (IF handler = "helper_cmd"
                        THEN {"user", "member", "admin_member"} ELSE {"none"})
    /\ request \in (IF handler = "_handle_query"
                    THEN {"question", "empty", "channel_not_allowed", "tools_none"}
                    ELSE {"question"})
    /\ hpc = "start"
    /\ replies = 0
    /\ bot_calls \in (IF handler = "on_message"
                      THEN {<<>>, Calls(BOT_RATE_LIMIT_MAX, 0), Calls(BOT_RATE_LIMIT_MAX + 1, 0)}
                      ELSE {<<>>})
    /\ now \in (IF handler = "on_message" THEN {5, 11} ELSE {0})
    /\ messages = <<>> /\ iteration = 0 /\ lpc = "idle" /\ llm_calls = 0
    /\ tool_calls = <<>> /\ tc = 0 /\ function_name = "" /\ function_args = ""
    /\ outcome = "" /\ tool_result = "" /\ called = "" /\ tool_execs = 0
    /\ started = <<>> /\ response = "none" /\ loop_result = "" /\ exc = ""
    /\ multi_used = 0 /\ next_id = 1
    /\ QueryIdle /\ RelayIdle /\ ContextIdle /\ UtilIdle

handlerVars == <<handler, interaction, request, hpc, replies, bot_calls, now>>
callVars == <<function_name, function_args, outcome, tool_result, called>>

\* entry of _call_llm_with_tools with the Conversation the caller seeded
enter_loop(seed) ==
    /\ messages' = seed
    /\ iteration' = 0
    /\ lpc' = "loop_head"
    /\ hpc' = "in_loop"
    /\ UNCHANGED <<llm_calls, tool_calls, tc, callVars, tool_execs, started,
                   response, loop_result, exc, multi_used, next_id>>

\* the handler ends here with one reply and never enters the loop
reply_and_finish ==
    /\ replies' = replies + 1
    /\ hpc' = "done"
    /\ UNCHANGED <<messages, iteration, lpc, llm_calls, tool_calls, tc, callVars,
                   tool_execs, started, response, loop_result, exc, multi_used,
                   next_id>>

\* Discord /bot: defer, read the channel history, ai_helper_discord
helper_cmd ==
    /\ handler = "helper_cmd" /\ hpc = "start"
    /\ enter_loop(<<PlainMessage("system"), PlainMessage("user"), PlainMessage("user")>>)
    /\ UNCHANGED <<handler, interaction, request, replies, bot_calls, now>>
    /\ UNCHANGED nonAgentVars

\* in-game /bot: sliding-window check, then ai_helper inside try/except
on_message ==
    /\ handler = "on_message" /\ hpc = "start"
    /\ LET recent == SelectSeq(bot_calls, LAMBDA call : call > now - BOT_RATE_LIMIT_PERIOD)
       IN  IF Len(recent) > BOT_RATE_LIMIT_MAX
           THEN /\ bot_calls' = recent
                /\ reply_and_finish
           ELSE /\ bot_calls' = Append(recent, now)
                /\ \E fetch \in {"ok", "raises"} :
                      IF fetch = "ok"
                      THEN /\ enter_loop(<<PlainMessage("system"), PlainMessage("user"),
                                           PlainMessage("user")>>)
                           /\ UNCHANGED replies
                      ELSE reply_and_finish
    /\ UNCHANGED <<handler, interaction, request, now>>
    /\ UNCHANGED nonAgentVars

\* devbot @mention: DevBotCog.on_message gates, then _handle_query
devbot_on_message ==
    /\ handler = "_handle_query" /\ hpc = "start"
    /\ IF request = "question"
       THEN /\ enter_loop(<<PlainMessage("system"), PlainMessage("user")>>)
            /\ UNCHANGED replies
       ELSE reply_and_finish
    /\ UNCHANGED <<handler, interaction, request, bot_calls, now>>
    /\ UNCHANGED nonAgentVars

\* while iteration < max_iterations: iteration += 1; await completions.create
invoke_model ==
    /\ lpc = "loop_head"
    /\ iteration < max_iterations(handler)
    /\ iteration' = iteration + 1
    /\ llm_calls' = llm_calls + 1
    /\ lpc' = "awaiting_model"
    /\ function_name' = "" /\ function_args' = "" /\ outcome' = ""
    /\ tool_result' = "" /\ called' = ""
    /\ UNCHANGED <<messages, tool_calls, tc, tool_execs, started, response,
                   loop_result, exc, multi_used, next_id>>
    /\ UNCHANGED handlerVars
    /\ UNCHANGED nonAgentVars

\* the while condition fails: the fixed message after the loop
return_capped ==
    /\ lpc = "loop_head"
    /\ ~(iteration < max_iterations(handler))
    /\ lpc' = "returned"
    /\ loop_result' = CappedText
    /\ UNCHANGED <<messages, iteration, llm_calls, tool_calls, tc, callVars,
                   tool_execs, started, response, exc, multi_used, next_id>>
    /\ UNCHANGED handlerVars
    /\ UNCHANGED nonAgentVars

\* variant: the failed model call is swallowed and the loop tries again
model_raises_retry ==
    /\ lpc = "awaiting_model"
    /\ lpc' = "loop_head"
    /\ response' = "raised"
    /\ UNCHANGED <<messages, iteration, llm_calls, tool_calls, tc, callVars,
                   tool_execs, started, loop_result, exc, multi_used, next_id>>
    /\ UNCHANGED handlerVars
    /\ UNCHANGED nonAgentVars

\* completions.create raises: nothing in the loop catches it
model_raises ==
    /\ lpc = "awaiting_model"
    /\ lpc' = "raised"
    /\ exc' = "APIError"
    /\ response' = "raised"
    /\ UNCHANGED <<messages, iteration, llm_calls, tool_calls, tc, callVars,
                   tool_execs, started, loop_result, multi_used, next_id>>
    /\ UNCHANGED handlerVars
    /\ UNCHANGED nonAgentVars

\* variant: `return response_message.content` without the `or` fallback
model_answers_no_fallback ==
    /\ lpc = "awaiting_model"
    /\ \E shape \in {"no_choices", "content_text", "content_empty", "content_none"} :
          /\ response' = shape
          /\ loop_result' = CASE shape = "no_choices" -> EmptyResponseText
                              [] shape = "content_text" -> AnswerText
                              [] OTHER -> ""
    /\ lpc' = "returned"
    /\ UNCHANGED <<messages, iteration, llm_calls, tool_calls, tc, callVars,
                   tool_execs, started, exc, multi_used, next_id>>
    /\ UNCHANGED handlerVars
    /\ UNCHANGED nonAgentVars

\* a completion without tool calls: no choices, or a message with or without text
model_answers ==
    /\ lpc = "awaiting_model"
    /\ \E shape \in {"no_choices", "content_text", "content_empty", "content_none"} :
          /\ response' = shape
          /\ loop_result' = CASE shape = "no_choices" -> EmptyResponseText
                              [] shape = "content_text" -> AnswerText
                              [] OTHER -> NoContentText
    /\ lpc' = "returned"
    /\ UNCHANGED <<messages, iteration, llm_calls, tool_calls, tc, callVars,
                   tool_execs, started, exc, multi_used, next_id>>
    /\ UNCHANGED handlerVars
    /\ UNCHANGED nonAgentVars

\* a completion with k tool calls: messages.append(response_message)
model_requests_tools ==
    /\ lpc = "awaiting_model"
    /\ \E k \in 1..MaxToolCalls :
          /\ k > 1 => multi_used < MaxMulti
          /\ multi_used' = IF k > 1 THEN multi_used + 1 ELSE multi_used
          /\ tool_calls' = [i \in 1..k |-> next_id + i - 1]
          /\ messages' = Append(messages, AssistantMessage([i \in 1..k |-> next_id + i - 1]))
          /\ next_id' = next_id + k
    /\ response' = "tool_calls"
    /\ tc' = 1
    /\ lpc' = "for_tool_call"
    /\ UNCHANGED <<iteration, llm_calls, callVars, tool_execs, started,
                   loop_result, exc>>
    /\ UNCHANGED handlerVars
    /\ UNCHANGED nonAgentVars

\* variant: the calls of a response are taken last to first
current_call_reversed(calls, i) == calls[Len(calls) - i + 1]

\* the tool call the for-loop is at: calls are taken in list order
current_call(calls, i) == calls[i]

\* for tool_call in tool_calls: json.loads(arguments), then await _execute_tool
begin_tool_call ==
    /\ lpc = "for_tool_call"
    /\ \E name \in ToolNames(handler) : \E args \in ArgShapes(name) :
          /\ function_name' = name
          /\ function_args' = args
          /\ IF args = "invalid_json"
             THEN /\ lpc' = "raised"
                  /\ exc' = "JSONDecodeError"
                  /\ UNCHANGED <<tool_execs, started>>
             ELSE /\ lpc' = "executing_tool"
                  /\ tool_execs' = tool_execs + 1
                  /\ started' = Append(started, current_call(tool_calls, tc))
                  /\ UNCHANGED exc
    /\ outcome' = "" /\ tool_result' = "" /\ called' = ""
    /\ UNCHANGED <<messages, iteration, llm_calls, tool_calls, tc, response,
                   loop_result, multi_used, next_id>>
    /\ UNCHANGED handlerVars
    /\ UNCHANGED nonAgentVars

\* _execute_tool returns; messages.append of the tool message; next call or
\* back to the while condition
finish_tool_call ==
    /\ lpc = "executing_tool"
    /\ \E out \in Outcomes(function_name) :
          LET r == execute_tool(handler, function_name, function_args, interaction, out)
          IN  /\ outcome' = out
              /\ tool_result' = r.result
              /\ called' = r.called
              /\ IF r.result = "RAISE"
                 THEN /\ lpc' = "raised"
                      /\ exc' = "ToolError"
                      /\ UNCHANGED <<messages, tc>>
                 ELSE /\ messages' = Append(messages, ToolMessage(current_call(tool_calls, tc)))
                      /\ UNCHANGED exc
                      /\ IF tc < Len(tool_calls)
                         THEN tc' = tc + 1 /\ lpc' = "for_tool_call"
                         ELSE tc' = tc /\ lpc' = "loop_head"
    /\ UNCHANGED <<iteration, llm_calls, tool_calls, function_name, function_args,
                   tool_execs, started, response, loop_result, multi_used, next_id>>
    /\ UNCHANGED handlerVars
    /\ UNCHANGED nonAgentVars

\* the loop returned: the handler sends the answer
handler_reply ==
    /\ hpc = "in_loop" /\ lpc = "returned"
    /\ replies' = replies + 1
    /\ hpc' = "done"
    /\ UNCHANGED <<handler, interaction, request, bot_calls, now>>
    /\ UNCHANGED <<messages, iteration, lpc, llm_calls, tool_calls, tc, callVars,
                   tool_execs, started, response, loop_result, exc, multi_used,
                   next_id>>
    /\ UNCHANGED nonAgentVars

\* the loop raised: on_message and _handle_query catch and report,
\* helper_cmd has no handler and the exception leaves it
handler_exception ==
    /\ hpc = "in_loop" /\ lpc = "raised"
    /\ IF handler \in {"on_message", "_handle_query"}
       THEN replies' = replies + 1 /\ hpc' = "done"
       ELSE replies' = replies /\ hpc' = "failed"
    /\ UNCHANGED <<handler, interaction, request, bot_calls, now>>
    /\ UNCHANGED <<messages, iteration, lpc, llm_calls, tool_calls, tc, callVars,
                   tool_execs, started, response, loop_result, exc, multi_used,
                   next_id>>
    /\ UNCHANGED nonAgentVars

NextAgent ==
    \/ helper_cmd
    \/ on_message
    \/ devbot_on_message
    \/ invoke_model
    \/ return_capped
    \/ model_raises
    \/ model_answers
    \/ model_requests_tools
    \/ begin_tool_call
    \/ finish_tool_call
    \/ handler_reply
    \/ handler_exception
SpecAgent == InitAgent /\ [][NextAgent]_vars

\* ================================================================ claims
\* C1: every run of the loop ends within max_iterations model invocations
\* (20 devbot, 10 knowledge agent), and when every model invocation was
\* answered by a response with at least one tool call, the loop returns the
\* fixed capped-complexity text after exactly max_iterations invocations.
C1_CappedAfterExactlyMaxIterations ==
    LET assistants == {i \in DOMAIN messages : messages[i].role = "assistant"}
    IN  /\ llm_calls <= max_iterations(handler)
        /\ (lpc \in {"returned", "raised"} /\ llm_calls >= 1
               /\ Cardinality(assistants) = llm_calls)
           => /\ lpc = "returned"
              /\ loop_result = CappedText
              /\ llm_calls = max_iterations(handler)

\* C2: at every model invocation after the first, and whenever the loop has
\* ended after executing tools, each tool-call id of each assistant message
\* has exactly one tool message with that id, after the assistant message
\* and before the next assistant message.
C2_EveryToolCallAnswered ==
    LET assistants == {i \in DOMAIN messages : messages[i].role = "assistant"}
        nextAssistant(i) ==
            IF \E j \in assistants : j > i
            THEN CHOOSE j \in assistants : j > i /\ \A k \in assistants : k > i => j <= k
            ELSE Len(messages) + 1
        answers(id) == {k \in DOMAIN messages :
                          messages[k].role = "tool" /\ messages[k].tool_call_id = id}
    IN  ((lpc = "awaiting_model" /\ llm_calls > 1)
            \/ (lpc \in {"returned", "raised"} /\ tool_execs > 0))
        => \A i \in assistants : \A n \in DOMAIN messages[i].tool_calls :
              /\ Cardinality(answers(messages[i].tool_calls[n])) = 1
              /\ \A k \in answers(messages[i].tool_calls[n]) :
                    i < k /\ k < nextAssistant(i)

\* C3: within one iteration the assistant message is appended first, the
\* tool calls are executed one at a time in list order (call i+1 starts only
\* after the result of call i is appended), the tool messages follow in the
\* same order, and the next model invocation comes after the last result.
C3_SequentialOrderedTools ==
    LET assistants == {i \in DOMAIN messages : messages[i].role = "assistant"}
        last == CHOOSE i \in assistants : \A j \in assistants : j <= i
        toolIds == [k \in 1..(Len(messages) - last) |-> messages[last + k].tool_call_id]
        appended == SelectSeq(messages, LAMBDA m : m.role = "tool")
    IN  /\ Len(started) <= Len(appended) + 1
        /\ \A k \in DOMAIN appended : appended[k].tool_call_id = started[k]
        /\ lpc \in {"for_tool_call", "executing_tool"} =>
              /\ assistants # {}
              /\ messages[last].tool_calls = tool_calls
              /\ \A k \in 1..(Len(messages) - last) : messages[last + k].role = "tool"
              /\ toolIds = SubSeq(tool_calls, 1, tc - 1)
        /\ lpc = "executing_tool" =>
              /\ Len(started) = Len(appended) + 1
              /\ started[Len(started)] = tool_calls[tc]
        /\ (lpc \in {"loop_head", "awaiting_model"} /\ assistants # {}) =>
              /\ \A k \in 1..(Len(messages) - last) : messages[last + k].role = "tool"
              /\ toolIds = messages[last].tool_calls
              /\ Len(started) = Len(appended)
\* the second call of a response is executing, the first result is appended
C3_Witness ==
    /\ lpc = "executing_tool" /\ tc = 2 /\ llm_calls > 1
    /\ messages[Len(messages)] = ToolMessage(tool_calls[1])

\* C4: a response without tool calls ends the loop at once with its text, or
\* with the fixed fallback when the text is empty or absent; a response
\* without choices ends it with the fixed empty-response text; no tool runs,
\* no model invocation follows and the Conversation is not extended.
C4_AnswerEndsLoop ==
    [][((lpc = "awaiting_model"
            /\ response' \in {"no_choices", "content_text", "content_empty", "content_none"})
         => (lpc' = "returned"
             /\ loop_result' = (CASE response' = "no_choices" -> EmptyResponseText
                                  [] response' = "content_text" -> AnswerText
                                  [] OTHER -> NoContentText)
             /\ UNCHANGED <<messages, tool_execs, llm_calls, started>>))
       /\ (response \in {"no_choices", "content_text", "content_empty", "content_none"}
         => UNCHANGED <<response, lpc, loop_result, messages, tool_execs, llm_calls, started>>)
      ]_vars
\* an empty answer after a round of tools was turned into the fallback text
C4_Witness ==
    /\ response = "content_empty" /\ lpc = "returned" /\ loop_result = NoContentText
    /\ tool_execs > 0 /\ hpc = "done"

\* C5: when the model call raises, the loop makes no further model
\* invocation and runs no further tool, and the exception leaves the loop.
C5_ModelFailureNotRetried ==
    [][((lpc = "awaiting_model" /\ response' = "raised")
         => (lpc' = "raised" /\ exc' = "APIError"
             /\ UNCHANGED <<messages, tool_execs, llm_calls, started, loop_result>>))
       /\ (response = "raised"
         => UNCHANGED <<response, lpc, exc, loop_result, messages, tool_execs, llm_calls, started>>)
      ]_vars
\* the model call failed after a round of tools and the handler has finished
C5_Witness ==
    /\ response = "raised" /\ lpc = "raised" /\ exc = "APIError"
    /\ tool_execs > 0 /\ llm_calls > 1 /\ hpc \in {"done", "failed"}

\* C6: tool-call arguments that cannot be parsed become an error string that
\* is the result of that tool call; they never end the loop.
C6_MalformedArgumentsHandled ==
    /\ exc # "JSONDecodeError"
    /\ function_args = "invalid_json" => lpc # "raised"

\* C7 (as stated): _execute_tool never raises: an unregistered name gives a
\* structured error string, and any exception of the underlying collaborator
\* (a missing required argument included) comes back as {"error": ...}.
C7_EveryFailureIsErrorJson ==
    /\ exc # "ToolError"
    /\ tool_result # "" =>
          /\ function_name = UnknownTool => tool_result = "error_json"
          /\ (called # "" /\ outcome = "fails") => tool_result = "error_json"
          /\ (function_name \notin {UnknownTool, "get_currently_playing_song",
                                    "get_current_subsidies", "get_server_commands",
                                    "list_directory"}
                /\ function_args = "missing_required"
                /\ (function_name = "create_scheduled_event" => is_admin(interaction)))
                => tool_result = "error_json"

\* C7 (amended): _execute_tool never raises and every executed tool call
\* yields its tool message, after which the loop goes on.  An unregistered
\* name and every exception that reaches _execute_tool's own except clause (a
\* raising backend request, arguments that are not an object, a missing
\* required argument of a devbot tool) give {"error": ...}; a failure the
\* collaborator handles itself comes back as that collaborator's error value.
C7_ExecuteToolNeverRaises ==
    LET requiresArgs == {"search_files", "read_file", "grep_search", "nix_hash_url"}
        readsArgs == (DevBotTools \cup {"create_poll", "query_game_database"})
                        \cup (IF is_admin(interaction) THEN {"create_scheduled_event"} ELSE {})
    IN  /\ exc # "ToolError"
        /\ tool_result \in {"", "ok", "error_json", "error_text", "error_list",
                            "permission_denied"}
        /\ tool_result # "" =>
              /\ lpc \in {"for_tool_call", "loop_head"}
                    \/ (lpc = "returned" /\ loop_result = CappedText)
              /\ messages[Len(messages)] = ToolMessage(started[Len(started)])
              /\ function_name = UnknownTool => tool_result = "error_json"
              /\ (called = "http_session.get" /\ outcome = "fails")
                    => tool_result = "error_json"
              /\ (function_name \in readsArgs /\ function_args = "non_object")
                    => tool_result = "error_json"
              /\ (function_name \in requiresArgs /\ function_args = "missing_required")
                    => tool_result = "error_json"
              /\ (called # "" /\ outcome = "fails") => tool_result # "ok"
              /\ (called \in {"actual_discord_poll_creator", "actual_discord_event_creator",
                              "execute_raw_query"} /\ outcome = "fails")
                    => tool_result = "error_text"
\* a backend request raised and its tool call was answered with {"error": ...}
C7_Witness ==
    /\ called = "http_session.get" /\ outcome = "fails"
    /\ tool_result = "error_json" /\ lpc = "loop_head"
    /\ messages[Len(messages)].role = "tool"

\* C8: create_poll and create_scheduled_event hand the request to their
\* side-effecting collaborator only for an interaction of an administrator
\* member; in every other case the collaborator is never called.
C8_SideEffectsNeedAdmin ==
    called \in {"actual_discord_poll_creator", "actual_discord_event_creator"}
        => is_admin(interaction)

\* C9: no handler execution ends without at least one user-visible reply.
C9_HandlerAlwaysReplies ==
    hpc \in {"done", "failed"} => replies >= 1

\* C10: execute_raw_query opens the database exactly for statements that,
\* trimmed and case-folded, begin with SELECT and contain no denylisted
\* keyword; every other statement gets an error result.
C10_OnlyGuardedSelectReachesDatabase ==
    LET fold(c) == upper_char(c)
        at(word, i) == /\ i + Len(word) - 1 <= Len(sql)
                       /\ \A j \in DOMAIN word : fold(sql[i + j - 1]) = word[j]
        beginsWithSelect ==
            \E i \in DOMAIN sql : /\ \A j \in 1..(i - 1) : sql[j] \in Whitespace
                                  /\ at(SELECT, i)
        blocked(k) == \E i \in DOMAIN sql : at(BLOCKED_KEYWORDS[k], i)
        drop == <<"D", "R", "O", "P", " ", "T", "A", "B", "L", "E", " ", "x">>
    IN  qpc = "returned" =>
          /\ db_opened <=> (beginsWithSelect /\ \A k \in DOMAIN BLOCKED_KEYWORDS : ~blocked(k))
          /\ ~db_opened => query_result.kind = "error"
          /\ query_result.kind = "results" => db_opened
          /\ sql = AdmittedStatement => db_opened
          /\ sql = RefusedStatement =>
                /\ ~db_opened
                /\ query_result.error = "Query contains blocked keyword"
                /\ BLOCKED_KEYWORDS[query_result.keyword] = <<"A", "T", "T", "A", "C", "H">>
          /\ sql = drop =>
                /\ ~db_opened
                /\ query_result.error = "Only SELECT queries are allowed"
\* a lower-case select behind leading whitespace was run and returned rows
C10_Witness ==
    /\ qpc = "returned" /\ db_opened /\ query_result.kind = "results"
    /\ Len(sql) > 0 /\ sql[1] \in Whitespace /\ "s" \in {sql[i] : i \in DOMAIN sql}

\* ================================================== Translation Relay model
\* ------------------------------------------------------------------ bounds
\* languages in the configured LANGUAGE_CHANNELS dict
MaxLanguages == 4
\* inbound messages of one SpecContext behaviour
MaxArrivals == 3

\* -------------------------------------------------- Username/Content Framing
\* Python None for a username; text never contains this element
None == <<"None">>
\* truth value of an `str | None`
truthy(s) == s # None /\ s # <<>>

SeqMin(S) == CHOOSE i \in S : \A j \in S : i <= j
drop(s, n) == SubSeq(s, n + 1, Len(s))
\* first index >= from holding c (0: none)
find(s, c, from) ==
    LET hits == {i \in from..Len(s) : s[i] = c}
    IN  IF hits = {} THEN 0 ELSE SeqMin(hits)
\* number of leading whitespace characters (regex \s*)
leading_space(s) ==
    LET solid == {i \in 1..Len(s) : s[i] \notin Whitespace}
    IN  IF solid = {} THEN Len(s) ELSE SeqMin(solid) - 1

\* re.sub(r'^<t:\d+:[tTdDfFR]>\s*', '', message)
strip_timestamp(s) ==
    LET close == find(s, ">", 1)
        is_token == /\ Len(s) >= 3 /\ SubSeq(s, 1, 3) = <<"<", "t", ":">>
                    /\ close >= 7
                    /\ s[close - 1] \in {"t", "T", "d", "D", "f", "F", "R"}
                    /\ s[close - 2] = ":"
                    /\ \A j \in 4..(close - 3) :
                          s[j] \in {"0", "1", "2", "3", "4", "5", "6", "7", "8", "9"}
    IN  IF is_token
        THEN drop(drop(s, close), leading_space(drop(s, close)))
        ELSE s

\* re.match(r'^(?:\*\*([^*]+?)(?::\*\*|\*\*:))\s*(.*)$'): the name runs to the
\* first '*' after the opening '**'; ':**' is tried before '**:'
match_bold(s) ==
    LET star == find(s, "*", 3)
        opened == Len(s) >= 2 /\ s[1] = "*" /\ s[2] = "*"
        closed == star # 0 /\ star + 1 <= Len(s) /\ s[star + 1] = "*"
        inside == closed /\ star >= 5 /\ s[star - 1] = ":"
        outside == closed /\ star >= 4 /\ star + 2 <= Len(s) /\ s[star + 2] = ":"
    IN  IF opened /\ inside
        THEN [matched |-> TRUE, name |-> SubSeq(s, 3, star - 2), rest |-> drop(s, star + 1)]
        ELSE IF opened /\ outside
        THEN [matched |-> TRUE, name |-> SubSeq(s, 3, star - 1), rest |-> drop(s, star + 2)]
        ELSE [matched |-> FALSE, name |-> <<>>, rest |-> <<>>]

\* variant: a name of exactly 50 characters is accepted
match_plain_inclusive(s) ==
    LET colon == find(s, ":", 1)
    IN  IF colon >= 2 /\ colon - 1 <= 50
        THEN [matched |-> TRUE, name |-> SubSeq(s, 1, colon - 1), rest |-> drop(s, colon)]
        ELSE [matched |-> FALSE, name |-> <<>>, rest |-> <<>>]
\* re.match(r'^([^:]+?):\s*(.*)$') and len(match.group(1)) < 50
match_plain(s) ==
    LET colon == find(s, ":", 1)
    IN  IF colon >= 2 /\ colon - 1 < 50
        THEN [matched |-> TRUE, name |-> SubSeq(s, 1, colon - 1), rest |-> drop(s, colon)]
        ELSE [matched |-> FALSE, name |-> <<>>, rest |-> <<>>]

extract_username_and_content(raw) ==
    LET s == strip_timestamp(raw)
    IN  IF match_bold(s).matched
        THEN [username |-> strip(match_bold(s).name), content |-> strip(match_bold(s).rest)]
        ELSE IF match_plain(s).matched
        THEN [username |-> strip(match_plain(s).name), content |-> strip(match_plain(s).rest)]
        ELSE [username |-> None, content |-> s]

format_with_username(username, content, is_bot) ==
    IF truthy(username) /\ ~is_bot
    THEN <<"*", "*">> \o username \o <<"*", "*", ":", " ">> \o content
    ELSE content

\* f"{username}: {content}"
framed(username, content) == username \o <<":", " ">> \o content
\* `x or y` on strings
either(x, y) == IF truthy(x) THEN x ELSE y

\* ------------------------------------------------------------ configuration
\* key order of the configured language dict; the model configures the first
\* MaxLanguages of them
Languages == <<"english", "malay", "thai", "chinese",
               "indonesian", "vietnamese", "tagalog", "japanese">>
LANGUAGE_CHANNELS ==
    SubSeq(Languages, 1, IF MaxLanguages < Len(Languages) THEN MaxLanguages ELSE Len(Languages))
IsLocal(l) == l # "english"
LANGUAGE_CHANNELS_GENERAL == SelectSeq(LANGUAGE_CHANNELS, IsLocal)
\* `if lang in ["malay", "tagalog"]: continue`
Skipped == {"malay", "tagalog"}
\* the fields of MultiTranslationWithEnglish in the order translate_game sends them
GameLanguages == <<"english", "chinese", "indonesian", "thai", "vietnamese", "japanese">>

Range(s) == {s[i] : i \in 1..Len(s)}
\* channel ids: every configured id is distinct
LanguageChannel(l) == <<"language", l>>
GeneralLanguageChannel(l) == <<"general", l>>
GENERAL_CHANNEL_ID == <<"general", "*">>
GAME_CHAT_CHANNEL_ID == <<"game_chat", "*">>
ECO_GAME_CHAT_CHANNEL_ID == <<"eco", "*">>
ECO_GAME_CHAT_CHINESE_CHANNEL_ID == <<"eco", "chinese">>
OtherChannel == <<"other", "*">>
\* LANGUAGE_CHANNELS.get(l)
LANGUAGE_CHANNELS_get(l) ==
    IF l \in Range(LANGUAGE_CHANNELS) THEN LanguageChannel(l) ELSE NoChannel

LanguageGroup == {LanguageChannel(l) : l \in Range(LANGUAGE_CHANNELS)}
GeneralGroup == {GENERAL_CHANNEL_ID} \cup {GeneralLanguageChannel(l) : l \in Range(LANGUAGE_CHANNELS_GENERAL)}
EcoGroup == {ECO_GAME_CHAT_CHANNEL_ID, ECO_GAME_CHAT_CHINESE_CHANNEL_ID}
GameGroup == {GAME_CHAT_CHANNEL_ID} \cup LanguageGroup
ConfiguredChannels == LanguageGroup \cup GeneralGroup \cup EcoGroup \cup {GAME_CHAT_CHANNEL_ID}

\* bot.get_channel(id) finds a channel
get_channel(id, missing) == id # NoChannel /\ id \notin missing

\* ---------------------------------------------------------- RollingContext
CONTEXT_LIMIT == 15
HISTORY_LIMIT == 15

\* variant: the newest entry is dropped on overflow
rolling_append_drop_newest(context, entry) ==
    IF Len(Append(context, entry)) > CONTEXT_LIMIT
    THEN context
    ELSE Append(context, entry)

\* context.append(entry); if len(context) > 15: context.pop(0)
rolling_append(context, entry) ==
    IF Len(Append(context, entry)) > CONTEXT_LIMIT
    THEN Tail(Append(context, entry))
    ELSE Append(context, entry)

\* the entry the game-chat and Eco flows keep: f"{username}: {content}" if username else content
context_entry(username, content) ==
    IF truthy(username) THEN framed(username, content) ELSE content

\* ------------------------------------------------- messages and translations
\* "**Somchai**: swd" ("swd" stands for the Thai greeting of the scenario)
FramedContent == <<"*", "*", "S", "o", "m", "c", "h", "a", "i", "*", "*", ":", " ", "s", "w", "d">>
BareContent == <<"s", "w", "d">>
\* message.author.display_name
display_name(author) ==
    IF author = "user" THEN <<"N", "o", "i">> ELSE <<"B", "o", "t">>
\* message.author.bot: the process's own account is a bot account too
author_bot(author) == author \in {"self", "bot"}

\* an earlier game-chat message "**Old:** x" and the entry kept for it
OldContent == <<"*", "*", "O", "l", "d", ":", "*", "*", " ", "x">>
OldEntry == <<"O", "l", "d", ":", " ", "x">>
Earlier(k, e) == [i \in 1..k |-> e]

\* the text a successful translation into language l carries
TranslationText(l) == <<"<", l, ">">>
\* what the awaited Language Model Service call does
CallOutcomes == {"ok", "empty", "raise"}
\* what an awaited transport send / game announce / history fetch does
IoOutcomes == {"ok", "raise"}
translated(out, l) == IF out = "ok" THEN TranslationText(l) ELSE <<>>

Call(fn, text, language, targets) ==
    [fn |-> fn, text |-> text, language |-> language, for |-> targets]
Sent(channel, text) == [channel |-> channel, text |-> text]

\* variant: own messages are relayed like any other
is_own_message_never(m) == FALSE

\* message.author == self.bot.user
is_own_message(m) == m.author = "self"

\* ------------------------------------------------------ the fan-out loops
\* the dict the loop walks and the id it reads for a language
fanout_langs(f) == IF f = "language" THEN LANGUAGE_CHANNELS ELSE LANGUAGE_CHANNELS_GENERAL
fanout_channel(f, l) == IF f = "language" THEN LanguageChannel(l) ELSE GeneralLanguageChannel(l)

\* variant: the source channel is a target too
is_target_any(src, l) == TRUE

\* `if target_lang != lang and target_channel_id != channel_id`
is_target(src, l) == l # src /\ LanguageChannel(l) # LanguageChannel(src)

\* the loop body runs for language l
visits(f, src, l) == IF f = "language" THEN is_target(src, l) ELSE l \notin Skipped

\* variant: the pivot translation is not reused for the English channel
reuses_pivot_never(f, src, l) == FALSE

\* `elif target_lang == "english": res_target = res`
reuses_pivot(f, src, l) == f = "language" /\ src # "english" /\ l = "english"

\* variant: every target is translated from the original text
fanout_input_original(f, src, content, pivot) == content

\* first argument of translate_to_language in the loop
fanout_input(f, src, content, pivot) ==
    IF f = "language" /\ src # "english" THEN pivot ELSE content

\* the loop reaches the translation step of language l
reaches(f, src, l, missing) == visits(f, src, l) /\ get_channel(fanout_channel(f, l), missing)
\* the next language the loop suspends at: a call or a send is awaited
\* (`if res_target and res_target.translation` skips an empty pivot text)
next_stop(f, src, i, pivot, missing) ==
    LET S == {j \in (i + 1)..Len(fanout_langs(f)) :
                 /\ reaches(f, src, fanout_langs(f)[j], missing)
                 /\ (reuses_pivot(f, src, fanout_langs(f)[j]) => truthy(pivot))}
    IN  IF S = {} THEN 0 ELSE SeqMin(S)

\* the loop goes on after index i: up to the next awaited call or send, or
\* past the last target to the context append and the end of the handler
goto_target(f, src, i) ==
    LET j == next_stop(f, src, i, translation, uncached)
        last == IF j = 0 THEN Len(fanout_langs(f)) ELSE j
        ex == extract_username_and_content(message.content)
        entry == framed(either(ex.username, display_name(message.author)), ex.content)
    IN  /\ ti' = j
        /\ attempted' = attempted \cup
              {fanout_channel(f, fanout_langs(f)[k]) :
                  k \in {n \in (i + 1)..last : reaches(f, src, fanout_langs(f)[n], uncached)}}
        /\ IF j = 0
           THEN /\ rpc' = "returned"
                /\ res_target' = <<>>
                /\ UNCHANGED translation_calls
                /\ IF f = "language"
                   THEN /\ cog_messages' = rolling_append(cog_messages, entry)
                        /\ UNCHANGED general_messages
                   ELSE /\ general_messages' = rolling_append(general_messages, entry)
                        /\ UNCHANGED cog_messages
           ELSE /\ UNCHANGED <<cog_messages, general_messages>>
                /\ IF reuses_pivot(f, src, fanout_langs(f)[j])
                   THEN /\ rpc' = "target_send"
                        /\ res_target' = translation
                        /\ UNCHANGED translation_calls
                   ELSE /\ rpc' = "target_translate"
                        /\ res_target' = <<>>
                        /\ translation_calls' = Append(translation_calls,
                              Call("translate_to_language",
                                   fanout_input(f, src, message.content, translation),
                                   fanout_langs(f)[j],
                                   {fanout_channel(f, fanout_langs(f)[j])}))
        /\ UNCHANGED eco_game_messages

\* sends of translate_game: `if result.<l>:` and `if <l>_channel:`
next_game_stop(i, res, missing) ==
    LET S == {k \in (i + 1)..Len(GameLanguages) :
                 /\ GameLanguages[k] \in res
                 /\ get_channel(LANGUAGE_CHANNELS_get(GameLanguages[k]), missing)}
    IN  IF S = {} THEN 0 ELSE SeqMin(S)

\* -------------------------------------- SpecRelay: one inbound message
InboundMessages ==
    [channel : ConfiguredChannels \cup {OtherChannel},
     author : {"self", "bot", "user"},
     content : {FramedContent, BareContent, <<>>}]

InitRelay ==
    /\ message \in InboundMessages
    /\ rpc = "start" /\ flow = "none" /\ lang = ""
    /\ translation = <<>> /\ ti = 0 /\ translation_calls = <<>> /\ sends = <<>>
    /\ announces = <<>> /\ attempted = {} /\ failed = {} /\ logged = 0
    /\ tpc = "none" /\ result = {} /\ res_target = <<>> /\ delivered = 0
    /\ uncached \in {{}} \cup {{c} : c \in ConfiguredChannels}
    /\ channel_history \in {<<>>, Earlier(HISTORY_LIMIT, OldContent)}
    /\ \E k \in {0, CONTEXT_LIMIT} :
          /\ cog_messages = Earlier(k, OldEntry)
          /\ general_messages = Earlier(k, OldEntry)
          /\ eco_game_messages = Earlier(k, OldEntry)
    /\ ctx_handlers = <<>> /\ ctx_arrivals = 0 /\ ctx_log = <<>>
    /\ AgentIdle /\ QueryIdle /\ UtilIdle

fanoutVars == <<ti, attempted, rpc, res_target, translation_calls,
                cog_messages, general_messages, eco_game_messages>>
environmentVars == <<uncached, channel_history>>

\* on_message from its entry to its first await or its return
translation_on_message ==
    /\ rpc = "start"
    /\ LET ch == message.channel
           ex == extract_username_and_content(message.content)
           user == ~author_bot(message.author)
           source(dict, f) == {l \in Range(dict) \ Skipped : fanout_channel(f, l) = ch}
       IN  IF is_own_message(message)
           THEN /\ rpc' = "returned"
                /\ UNCHANGED <<flow, lang, translation, ti, translation_calls, attempted,
                               tpc, res_target, contextVars>>
           ELSE IF author_bot(message.author) /\ ch = GAME_CHAT_CHANNEL_ID
           THEN /\ flow' = "game"
                /\ IF cog_messages = <<>>
                   THEN /\ rpc' = "history"
                        /\ UNCHANGED <<tpc, cog_messages>>
                   ELSE /\ tpc' = "spawned"
                        /\ cog_messages' = rolling_append(cog_messages,
                                                          context_entry(ex.username, ex.content))
                        /\ rpc' = "returned"
                /\ UNCHANGED <<lang, translation, ti, translation_calls, attempted,
                               res_target, general_messages, eco_game_messages>>
           ELSE IF user /\ source(LANGUAGE_CHANNELS, "language") # {}
           THEN /\ flow' = "language"
                /\ lang' = CHOOSE l \in source(LANGUAGE_CHANNELS, "language") : TRUE
                /\ IF lang' # "english"
                   THEN /\ translation_calls' = Append(translation_calls,
                              Call("translate", message.content, lang', {LanguageChannel("english")}))
                        /\ rpc' = "translate"
                        /\ UNCHANGED translation
                   ELSE /\ translation' = message.content
                        /\ rpc' = "announce"
                        /\ UNCHANGED translation_calls
                /\ UNCHANGED <<ti, attempted, tpc, res_target, contextVars>>
           ELSE IF user /\ source(LANGUAGE_CHANNELS_GENERAL, "general") # {}
           THEN /\ flow' = "to_general"
                /\ lang' = CHOOSE l \in source(LANGUAGE_CHANNELS_GENERAL, "general") : TRUE
                /\ translation_calls' = Append(translation_calls,
                      Call("translate", message.content, lang', {GENERAL_CHANNEL_ID}))
                /\ attempted' = {GENERAL_CHANNEL_ID}
                /\ rpc' = "general_translate"
                /\ UNCHANGED <<translation, ti, tpc, res_target, contextVars>>
           ELSE IF user /\ ch = GENERAL_CHANNEL_ID
           THEN /\ flow' = "from_general"
                /\ goto_target("from_general", "", 0)
                /\ UNCHANGED <<lang, translation, tpc>>
           ELSE IF ch = ECO_GAME_CHAT_CHANNEL_ID /\ message.content # <<>>
           THEN /\ flow' = "eco_to_chinese"
                /\ tpc' = "spawned"
                /\ rpc' = "returned"
                /\ UNCHANGED <<lang, translation, ti, translation_calls, attempted,
                               res_target, contextVars>>
           ELSE IF ch = ECO_GAME_CHAT_CHINESE_CHANNEL_ID /\ message.content # <<>>
           THEN /\ flow' = "chinese_to_eco"
                /\ tpc' = "spawned"
                /\ rpc' = "returned"
                /\ UNCHANGED <<lang, translation, ti, translation_calls, attempted,
                               res_target, contextVars>>
           ELSE /\ rpc' = "returned"
                /\ UNCHANGED <<flow, lang, translation, ti, translation_calls, attempted,
                               tpc, res_target, contextVars>>
    /\ UNCHANGED <<message, sends, announces, failed, logged, result, delivered, environmentVars>>
    /\ UNCHANGED nonRelayVars

\* `async for msg in message_channel.history(limit=15)` returns: the newest
\* messages of the channel, the inbound one first, are appended; then the
\* task is created and the inbound message is appended and trimmed
history_fetched ==
    /\ rpc = "history"
    /\ \E out \in IoOutcomes :
          IF out = "raise"
          THEN /\ rpc' = "raised"
               /\ UNCHANGED <<tpc, cog_messages>>
          ELSE LET ex == extract_username_and_content(message.content)
                   recent == SubSeq(<<message.content>> \o channel_history, 1,
                                    IF 1 + Len(channel_history) < HISTORY_LIMIT
                                    THEN 1 + Len(channel_history) ELSE HISTORY_LIMIT)
                   seeded == [i \in 1..Len(recent) |->
                                 context_entry(extract_username_and_content(recent[i]).username,
                                               extract_username_and_content(recent[i]).content)]
               IN  /\ cog_messages' = rolling_append(cog_messages \o seeded,
                                                     context_entry(ex.username, ex.content))
                   /\ tpc' = "spawned"
                   /\ rpc' = "returned"
    /\ UNCHANGED <<message, flow, lang, translation, ti, translation_calls, sends, announces,
                   attempted, failed, logged, result, res_target, delivered,
                   general_messages, eco_game_messages, environmentVars>>
    /\ UNCHANGED nonRelayVars

\* `res = await self.translate(message.content, lang, ...)` returns or raises
pivot_translated ==
    /\ rpc = "translate"
    /\ \E out \in CallOutcomes :
          IF out = "raise"
          THEN /\ rpc' = "raised"
               /\ failed' = failed \cup {LanguageChannel("english")}
               /\ UNCHANGED translation
          ELSE /\ translation' = translated(out, "english")
               /\ rpc' = "announce"
               /\ UNCHANGED failed
    /\ UNCHANGED <<message, flow, lang, ti, translation_calls, sends, announces, attempted,
                   logged, tpc, result, res_target, delivered, contextVars, environmentVars>>
    /\ UNCHANGED nonRelayVars

\* `await announce_in_game(...)` returns or raises; the inner loop starts
announced ==
    /\ rpc = "announce"
    /\ \E out \in IoOutcomes :
          IF out = "raise"
          THEN /\ rpc' = "raised"
               /\ UNCHANGED <<announces, ti, attempted, res_target, translation_calls, contextVars>>
          ELSE /\ announces' = Append(announces, framed(display_name(message.author), translation))
               /\ goto_target("language", lang, 0)
    /\ UNCHANGED <<message, flow, lang, translation, sends, failed, logged, tpc, result,
                   delivered, environmentVars>>
    /\ UNCHANGED nonRelayVars

\* `res_target = await self.translate_to_language(...)` returns or raises
\* inside the per-target try
target_translated ==
    /\ rpc = "target_translate"
    /\ \E out \in CallOutcomes :
          CASE out = "ok" ->
                  /\ res_target' = translated(out, fanout_langs(flow)[ti])
                  /\ rpc' = "target_send"
                  /\ UNCHANGED <<ti, attempted, translation_calls, contextVars, failed, logged>>
            [] out = "empty" ->
                  /\ goto_target(flow, lang, ti)
                  /\ UNCHANGED <<failed, logged>>
            [] out = "raise" ->
                  /\ failed' = failed \cup {fanout_channel(flow, fanout_langs(flow)[ti])}
                  /\ logged' = logged + 1
                  /\ goto_target(flow, lang, ti)
    /\ UNCHANGED <<message, flow, lang, translation, sends, announces, tpc, result,
                   delivered, environmentVars>>
    /\ UNCHANGED nonRelayVars

\* `await target_channel.send(formatted)` returns or raises inside the try
target_sent ==
    /\ rpc = "target_send"
    /\ \E out \in IoOutcomes :
          LET ex == extract_username_and_content(message.content)
              formatted == format_with_username(
                               either(ex.username, display_name(message.author)),
                               res_target, is_own_message(message))
          IN  /\ IF out = "ok"
                 THEN /\ sends' = Append(sends,
                            Sent(fanout_channel(flow, fanout_langs(flow)[ti]), formatted))
                      /\ UNCHANGED logged
                 ELSE /\ logged' = logged + 1
                      /\ UNCHANGED sends
              /\ goto_target(flow, lang, ti)
    /\ UNCHANGED <<message, flow, lang, translation, announces, failed, tpc, result,
                   delivered, environmentVars>>
    /\ UNCHANGED nonRelayVars

\* language channel -> general: `res = await self.translate(...)` returns or raises
general_translated ==
    /\ rpc = "general_translate"
    /\ \E out \in CallOutcomes :
          LET ex == extract_username_and_content(message.content)
              entry == framed(either(ex.username, display_name(message.author)), ex.content)
          IN  IF out = "raise"
              THEN /\ rpc' = "raised"
                   /\ failed' = failed \cup {GENERAL_CHANNEL_ID}
                   /\ UNCHANGED <<translation, general_messages>>
              ELSE /\ translation' = translated(out, "english")
                   /\ UNCHANGED failed
                   /\ IF get_channel(GENERAL_CHANNEL_ID, uncached)
                      THEN /\ rpc' = "general_send"
                           /\ UNCHANGED general_messages
                      ELSE /\ general_messages' = rolling_append(general_messages, entry)
                           /\ rpc' = "returned"
    /\ UNCHANGED <<message, flow, lang, ti, translation_calls, sends, announces, attempted,
                   logged, tpc, result, res_target, delivered, cog_messages,
                   eco_game_messages, environmentVars>>
    /\ UNCHANGED nonRelayVars

\* `await gen_chan.send(formatted)` returns or raises; then the context append
general_sent ==
    /\ rpc = "general_send"
    /\ \E out \in IoOutcomes :
          LET ex == extract_username_and_content(message.content)
              entry == framed(either(ex.username, display_name(message.author)), ex.content)
              formatted == format_with_username(
                               either(ex.username, display_name(message.author)),
                               translation, is_own_message(message))
          IN  IF out = "raise"
              THEN /\ rpc' = "raised"
                   /\ UNCHANGED <<sends, general_messages>>
              ELSE /\ sends' = Append(sends, Sent(GENERAL_CHANNEL_ID, formatted))
                   /\ general_messages' = rolling_append(general_messages, entry)
                   /\ rpc' = "returned"
    /\ UNCHANGED <<message, flow, lang, translation, ti, translation_calls, announces,
                   attempted, failed, logged, tpc, result, res_target, delivered,
                   cog_messages, eco_game_messages, environmentVars>>
    /\ UNCHANGED nonRelayVars

\* the languages whose field of the multi translation is a non-empty text
MultiResults == {Range(GameLanguages)} \cup {Range(GameLanguages) \ {l} : l \in {"english", "thai"}}

\* Eco pair: the target channel and language of the task
eco_target(f) ==
    IF f = "eco_to_chinese"
    THEN [channel |-> ECO_GAME_CHAT_CHINESE_CHANNEL_ID, language |-> "Chinese"]
    ELSE [channel |-> ECO_GAME_CHAT_CHANNEL_ID, language |-> "English"]
\* `if not message.author.bot and not username: username = display_name`
eco_username(m) ==
    LET ex == extract_username_and_content(m.content)
    IN  IF ~author_bot(m.author) /\ ~truthy(ex.username)
        THEN display_name(m.author) ELSE ex.username
\* the Eco task's context append and trim
eco_append(m) ==
    eco_game_messages' = rolling_append(eco_game_messages,
        context_entry(eco_username(m), extract_username_and_content(m.content).content))

\* the task created by create_task runs to its first await: the model call
task_started ==
    /\ tpc = "spawned" /\ rpc = "returned"
    /\ LET ex == extract_username_and_content(message.content)
       IN  IF flow = "game"
           THEN /\ translation_calls' = Append(translation_calls,
                      Call("translate_multi_with_english", ex.content, "all",
                           {LANGUAGE_CHANNELS_get(l) : l \in Range(GameLanguages)} \ {NoChannel}))
                /\ tpc' = "game_call"
           ELSE /\ translation_calls' = Append(translation_calls,
                      Call("translate_to_language", ex.content, eco_target(flow).language,
                           {eco_target(flow).channel}))
                /\ tpc' = "eco_call"
    /\ attempted' = attempted \cup translation_calls'[Len(translation_calls')].for
    /\ UNCHANGED <<message, rpc, flow, lang, translation, ti, sends, announces, failed,
                   logged, result, res_target, delivered, contextVars, environmentVars>>
    /\ UNCHANGED nonRelayVars

\* translate_game: translate_multi_with_english returns or raises
game_translated ==
    /\ tpc = "game_call"
    /\ \/ /\ failed' = failed \cup translation_calls[Len(translation_calls)].for
          /\ logged' = logged + 1
          /\ tpc' = "done"
          /\ UNCHANGED <<result, ti>>
       \/ \E res \in MultiResults :
             /\ result' = res
             /\ ti' = next_game_stop(0, res, uncached)
             /\ tpc' = IF ti' = 0 THEN "done" ELSE "game_send"
             /\ UNCHANGED <<failed, logged>>
    /\ UNCHANGED <<message, rpc, flow, lang, translation, translation_calls, sends, announces,
                   attempted, res_target, delivered, contextVars, environmentVars>>
    /\ UNCHANGED nonRelayVars

\* translate_game: `await <l>_channel.send(formatted)` returns or raises; a
\* raise leaves the task through its single except
game_sent ==
    /\ tpc = "game_send"
    /\ \E out \in IoOutcomes :
          LET ex == extract_username_and_content(message.content)
              l == GameLanguages[ti]
          IN  IF out = "raise"
              THEN /\ logged' = logged + 1
                   /\ tpc' = "done"
                   /\ UNCHANGED <<sends, ti>>
              ELSE /\ sends' = Append(sends,
                         Sent(LANGUAGE_CHANNELS_get(l),
                              format_with_username(ex.username, TranslationText(l), FALSE)))
                   /\ ti' = next_game_stop(ti, result, uncached)
                   /\ tpc' = IF ti' = 0 THEN "done" ELSE "game_send"
                   /\ UNCHANGED logged
    /\ UNCHANGED <<message, rpc, flow, lang, translation, translation_calls, announces,
                   attempted, failed, result, res_target, delivered, contextVars,
                   environmentVars>>
    /\ UNCHANGED nonRelayVars

\* Eco task: translate_to_language returns or raises
eco_translated ==
    /\ tpc = "eco_call"
    /\ \E out \in CallOutcomes :
          CASE out = "raise" ->
                  /\ failed' = failed \cup {eco_target(flow).channel}
                  /\ logged' = logged + 1
                  /\ tpc' = "done"
                  /\ UNCHANGED <<res_target, eco_game_messages>>
            [] out = "ok" /\ get_channel(eco_target(flow).channel, uncached) ->
                  /\ res_target' = translated(out, eco_target(flow).language)
                  /\ tpc' = "eco_send"
                  /\ UNCHANGED <<failed, logged, eco_game_messages>>
            [] OTHER ->
                  /\ eco_append(message)
                  /\ tpc' = "done"
                  /\ UNCHANGED <<failed, logged, res_target>>
    /\ UNCHANGED <<message, rpc, flow, lang, translation, ti, translation_calls, sends,
                   announces, attempted, result, delivered, cog_messages, general_messages,
                   environmentVars>>
    /\ UNCHANGED nonRelayVars

\* Eco task: the send returns or raises; the context append follows the send
eco_sent ==
    /\ tpc = "eco_send"
    /\ \E out \in IoOutcomes :
          LET username == eco_username(message)
              formatted == format_with_username(username, res_target,
                               is_own_message(message) /\ ~truthy(username))
          IN  IF out = "raise"
              THEN /\ logged' = logged + 1
                   /\ UNCHANGED <<sends, eco_game_messages>>
              ELSE /\ sends' = Append(sends, Sent(eco_target(flow).channel, formatted))
                   /\ eco_append(message)
                   /\ UNCHANGED logged
    /\ tpc' = "done"
    /\ UNCHANGED <<message, rpc, flow, lang, translation, ti, translation_calls, announces,
                   attempted, failed, result, res_target, delivered, cog_messages,
                   general_messages, environmentVars>>
    /\ UNCHANGED nonRelayVars

\* the gateway delivers a message the relay published: on_message is entered
\* with the process's own account as author
deliver_published ==
    /\ rpc \in {"returned", "raised"} /\ tpc \in {"none", "done"}
    /\ delivered < Len(sends)
    /\ delivered' = delivered + 1
    /\ message' = [channel |-> sends[delivered + 1].channel, author |-> "self",
                   content |-> sends[delivered + 1].text]
    /\ rpc' = "start"
    /\ tpc' = "none"
    /\ UNCHANGED <<flow, lang, translation, ti, translation_calls, sends, announces,
                   attempted, failed, logged, result, res_target, contextVars,
                   environmentVars>>
    /\ UNCHANGED nonRelayVars

NextRelay ==
    \/ translation_on_message
    \/ history_fetched
    \/ pivot_translated
    \/ announced
    \/ target_translated
    \/ target_sent
    \/ general_translated
    \/ general_sent
    \/ task_started
    \/ game_translated
    \/ game_sent
    \/ eco_translated
    \/ eco_sent
    \/ deliver_published
SpecRelay == InitRelay /\ [][NextRelay]_vars

\* ============================================================ relay claims
\* the channel group of the flow the message entered
GroupOf(f) ==
    CASE f = "language" -> LanguageGroup
      [] f \in {"to_general", "from_general"} -> GeneralGroup
      [] f \in {"eco_to_chinese", "chinese_to_eco"} -> EcoGroup
      [] f = "game" -> GameGroup
      [] OTHER -> {}

\* C11: one inbound message causes at most K-1 Language Model Service calls,
\* K being the number of channels of its group, in every flow and for every
\* source channel; no target channel is translated for by two calls.
C11_AtMostKMinusOneCalls ==
    /\ flow # "none" => Len(translation_calls) <= Cardinality(GroupOf(flow)) - 1
    /\ \A i, j \in 1..Len(translation_calls) :
          i # j => translation_calls[i].for \cap translation_calls[j].for = {}
\* a message from a non-pivot language channel has been relayed to the whole
\* group with exactly K-1 calls
C11_Witness ==
    /\ flow = "language" /\ lang # "english" /\ rpc = "returned"
    /\ Len(translation_calls) = Cardinality(LanguageGroup) - 1

\* C12: one inbound message causes at most K-1 outbound sends for a group of
\* K channels, no channel receives two messages derived from it, and nothing
\* is sent to the channel the inbound message came from.
C12_BoundedFanOut ==
    /\ flow # "none" => Len(sends) <= Cardinality(GroupOf(flow)) - 1
    /\ \A i, j \in 1..Len(sends) : i # j => sends[i].channel # sends[j].channel
    /\ message.author # "self" => \A i \in 1..Len(sends) : sends[i].channel # message.channel
\* a user's message has been published to every other channel of its group
C12_Witness ==
    /\ flow = "language" /\ message.author = "user" /\ rpc = "returned"
    /\ {sends[i].channel : i \in 1..Len(sends)} = LanguageGroup \ {message.channel}

\* channels the language fan-out of the inbound message can publish to
ReachableTargets == (LanguageGroup \ {message.channel}) \ uncached
\* "**Somchai**: " in front of a translation
SomchaiPrefix == <<"*", "*", "S", "o", "m", "c", "h", "a", "i", "*", "*", ":", " ">>

\* C13: for a message from a non-pivot language channel the only call on the
\* original text is the one translation into English; the English channel is
\* sent that translation without a further call; every other target is
\* produced by one translate_to_language call whose input is the English
\* translation.  With English, Thai and Chinese as the channels in reach and
\* the Thai message "**Somchai**: swd": the calls are thai->english and
\* english->chinese, the sends go to the English and Chinese channels as
\* "**Somchai**: <translation>", and nothing is sent to the Thai channel.
C13_PivotRouting ==
    (flow = "language" /\ lang # "english" /\ message.author # "self") =>
        /\ Len(translation_calls) >= 1
        /\ translation_calls[1] =
              Call("translate", message.content, lang, {LanguageChannel("english")})
        /\ \A i \in 2..Len(translation_calls) :
              /\ translation_calls[i].fn = "translate_to_language"
              /\ translation_calls[i].text = translation
              /\ translation_calls[i].language \notin {lang, "english"}
              /\ translation_calls[i].for = {LanguageChannel(translation_calls[i].language)}
              /\ rpc # "translate"
        /\ \A i \in 1..Len(sends) :
              /\ \E l \in Range(LANGUAGE_CHANNELS) \ {lang} :
                    /\ sends[i].channel = LanguageChannel(l)
                    /\ sends[i].text =
                          <<"*", "*">> \o either(extract_username_and_content(message.content).username,
                                                display_name(message.author))
                                     \o <<"*", "*", ":", " ">> \o TranslationText(l)
              /\ sends[i].channel = LanguageChannel("english") => translation = TranslationText("english")
              /\ sends[i].channel # LanguageChannel("english") =>
                    Cardinality({c \in 1..Len(translation_calls) :
                                    translation_calls[c].for = {sends[i].channel}}) = 1
        /\ (/\ lang = "thai" /\ message.content = FramedContent /\ rpc = "returned"
            /\ ReachableTargets = {LanguageChannel("english"), LanguageChannel("chinese")}) =>
               /\ translation_calls =
                     << Call("translate", FramedContent, "thai", {LanguageChannel("english")}),
                        Call("translate_to_language", translation, "chinese",
                             {LanguageChannel("chinese")}) >>
               /\ \A i \in 1..Len(sends) :
                     sends[i] \in {Sent(LanguageChannel(l), SomchaiPrefix \o TranslationText(l)) :
                                      l \in {"english", "chinese"}}
\* the scenario ran without failure: two calls, two sends
C13_Witness ==
    /\ flow = "language" /\ lang = "thai" /\ message.content = FramedContent
    /\ message.author = "user" /\ rpc = "returned"
    /\ ReachableTargets = {LanguageChannel("english"), LanguageChannel("chinese")}
    /\ Len(translation_calls) = 2
    /\ sends = << Sent(LanguageChannel("english"), SomchaiPrefix \o TranslationText("english")),
                  Sent(LanguageChannel("chinese"), SomchaiPrefix \o TranslationText("chinese")) >>

\* the target channels the flow of the inbound message translates for
TargetsOf(f) ==
    CASE f = "language" -> ReachableTargets
      [] f = "from_general" ->
            {GeneralLanguageChannel(l) : l \in Range(LANGUAGE_CHANNELS_GENERAL) \ Skipped} \ uncached
      [] f = "to_general" -> {GENERAL_CHANNEL_ID}
      [] f \in {"eco_to_chinese", "chinese_to_eco"} -> {eco_target(f).channel}
      [] f = "game" -> {LANGUAGE_CHANNELS_get(l) : l \in Range(GameLanguages)} \ {NoChannel}
      [] OTHER -> {}

\* C14: when the Language Model Service raises while translating for one
\* target channel, the translation step of every other target channel of the
\* same message is still reached by the time the handler and its task end.
C14_OtherTargetsStillAttempted ==
    (/\ message.author # "self" /\ failed # {}
     /\ rpc \in {"returned", "raised"} /\ tpc \in {"none", "done"}) =>
        TargetsOf(flow) \subseteq (attempted \cup failed)

\* C15: no failure of the relay (a translation call, a transport send, the
\* in-game announce) propagates out of on_message.
C15_NothingPropagates ==
    rpc # "raised"

\* C16: while a translation call for one target is awaited, the handler has
\* returned and no other target of the message is waiting behind that call.
C16_CallBlocksNothing ==
    (/\ message.author # "self"
     /\ \/ rpc \in {"translate", "target_translate", "general_translate"}
        \/ tpc \in {"game_call", "eco_call"}) =>
        /\ rpc = "returned"
        /\ TargetsOf(flow) \subseteq (attempted \cup failed)

\* C17: handling a message authored by the process's own account, which every
\* message the relay published is, makes no translation call, no send, no
\* announcement and no RollingContext change; no published text carries a
\* name prefix in front of a name prefix.
C17_OwnMessagesIgnored ==
    [][(/\ (message.author = "self" =>
              UNCHANGED <<translation_calls, sends, announces, tpc,
                          cog_messages, general_messages, eco_game_messages>>)
        /\ (\A i \in 1..Len(sends') :
              ~match_bold(extract_username_and_content(sends'[i].text).content).matched))
      ]_vars
\* every message of a fan-out was delivered back and its handler returned
C17_Witness ==
    /\ message.author = "self" /\ rpc = "returned"
    /\ Len(sends) >= 2 /\ delivered = Len(sends)

\* the RollingContext of the flow the message entered
ContextOf(f) ==
    CASE f \in {"game", "language"} -> cog_messages
      [] f \in {"to_general", "from_general"} -> general_messages
      [] OTHER -> eco_game_messages
\* entries of a context that are not the earlier entries it started with
NewEntries(context) == {i \in 1..Len(context) : context[i] # OldEntry}

\* C20: once the handler of a processed inbound message has returned and its
\* task has ended, the RollingContext of its group holds exactly one entry
\* for it, whether or not its translations succeeded, and the other
\* contexts hold none.
C20_AppendedExactlyOnce ==
    (/\ message.author # "self" /\ flow # "none"
     /\ rpc = "returned" /\ tpc \in {"none", "done"}) =>
        /\ Cardinality(NewEntries(ContextOf(flow))) = 1
        /\ Cardinality(NewEntries(cog_messages)) + Cardinality(NewEntries(general_messages))
              + Cardinality(NewEntries(eco_game_messages)) = 1

\* ------------------------- SpecAppend: one RollingContext, appends in a row
\* appends of one SpecAppend behaviour
MaxAppends == 17

InitAppend ==
    /\ cog_messages = <<>> /\ general_messages = <<>> /\ eco_game_messages = <<>>
    /\ channel_history = <<>>
    /\ ctx_handlers = <<>> /\ ctx_arrivals = 0 /\ ctx_log = <<>>
    /\ RelayIdle /\ AgentIdle /\ QueryIdle /\ UtilIdle

\* lines 311-314 / 375-379 applied to the context for one more entry
append_entry ==
    /\ Len(ctx_log) < MaxAppends
    /\ \E entry \in {OldEntry, BareContent} :
          /\ cog_messages' = rolling_append(cog_messages, entry)
          /\ ctx_log' = Append(ctx_log, entry)
    /\ UNCHANGED <<general_messages, eco_game_messages, channel_history,
                   ctx_handlers, ctx_arrivals>>
    /\ UNCHANGED nonContextVars

NextAppend == append_entry
SpecAppend == InitAppend /\ [][NextAppend]_vars

ArrivalContent(n) == <<"m", <<"1", "2", "3", "4", "5", "6", "7", "8", "9">>[n]>>
\* the entry each flow appends for a user's (game chat: a relay bot's) message
arrival_entry(kind, n) ==
    LET ex == extract_username_and_content(ArrivalContent(n))
    IN  CASE kind = "game" -> context_entry(ex.username, ex.content)
          [] kind = "eco" ->
                context_entry(eco_username([channel |-> ECO_GAME_CHAT_CHANNEL_ID,
                                            author |-> "user",
                                            content |-> ArrivalContent(n)]), ex.content)
          [] OTHER -> framed(either(ex.username, display_name("user")), ex.content)

InitContext ==
    /\ \E k \in {0, CONTEXT_LIMIT} :
          /\ cog_messages = Earlier(k, OldEntry)
          /\ general_messages = Earlier(k, OldEntry)
          /\ eco_game_messages = Earlier(k, OldEntry)
    /\ channel_history \in {<<>>, Earlier(HISTORY_LIMIT, OldContent)}
    /\ ctx_handlers = <<>> /\ ctx_arrivals = 0 /\ ctx_log = <<>>
    /\ RelayIdle /\ AgentIdle /\ QueryIdle /\ UtilIdle

\* on_message is entered for one more message and runs to its first await:
\* the game-chat flow appends at once unless the context is empty and the
\* history has to be fetched first; the other flows await their calls
ctx_receive ==
    /\ ctx_arrivals < MaxArrivals
    /\ ctx_arrivals' = ctx_arrivals + 1
    /\ \E kind \in {"game", "language", "general", "eco"} :
          IF kind = "game" /\ cog_messages # <<>>
          THEN /\ cog_messages' = rolling_append(cog_messages, arrival_entry(kind, ctx_arrivals'))
               /\ ctx_handlers' = Append(ctx_handlers, [kind |-> kind, pc |-> "done"])
          ELSE /\ ctx_handlers' = Append(ctx_handlers,
                     [kind |-> kind, pc |-> IF kind = "game" THEN "history" ELSE "relaying"])
               /\ UNCHANGED cog_messages
    /\ UNCHANGED <<general_messages, eco_game_messages, channel_history, ctx_log>>
    /\ UNCHANGED nonContextVars

\* the game-chat messages received up to now, newest first
RECURSIVE game_arrivals(_, _)
game_arrivals(handlers, n) ==
    IF n = 0 THEN <<>>
    ELSE IF handlers[n].kind = "game"
         THEN <<ArrivalContent(n)>> \o game_arrivals(handlers, n - 1)
         ELSE game_arrivals(handlers, n - 1)

\* the history fetch of handler h returns: up to 15 entries are appended
\* without a trim, then the inbound message is appended and trimmed
ctx_history_fetched ==
    \E h \in 1..Len(ctx_handlers) :
       /\ ctx_handlers[h].pc = "history"
       /\ \E out \in IoOutcomes :
             IF out = "raise"
             THEN /\ ctx_handlers' = [ctx_handlers EXCEPT ![h].pc = "failed"]
                  /\ UNCHANGED cog_messages
             ELSE LET channel == game_arrivals(ctx_handlers, Len(ctx_handlers)) \o channel_history
                      recent == SubSeq(channel, 1, IF Len(channel) < HISTORY_LIMIT
                                                   THEN Len(channel) ELSE HISTORY_LIMIT)
                      seeded == [i \in 1..Len(recent) |->
                                    context_entry(extract_username_and_content(recent[i]).username,
                                                  extract_username_and_content(recent[i]).content)]
                  IN  /\ cog_messages' = rolling_append(cog_messages \o seeded,
                                                        arrival_entry("game", h))
                      /\ ctx_handlers' = [ctx_handlers EXCEPT ![h].pc = "done"]
       /\ UNCHANGED <<general_messages, eco_game_messages, channel_history,
                      ctx_arrivals, ctx_log>>
       /\ UNCHANGED nonContextVars

\* the awaited calls and sends of handler (or task) h are over: the message
\* is appended to the context of its flow and trimmed, unless an exception
\* ended the flow before its append
ctx_relayed ==
    \E h \in 1..Len(ctx_handlers) :
       /\ ctx_handlers[h].pc = "relaying"
       /\ \E out \in IoOutcomes :
             IF out = "raise"
             THEN /\ ctx_handlers' = [ctx_handlers EXCEPT ![h].pc = "failed"]
                  /\ UNCHANGED contextVars
             ELSE /\ ctx_handlers' = [ctx_handlers EXCEPT ![h].pc = "done"]
                  /\ LET entry == arrival_entry(ctx_handlers[h].kind, h)
                     IN  CASE ctx_handlers[h].kind = "language" ->
                                 /\ cog_messages' = rolling_append(cog_messages, entry)
                                 /\ UNCHANGED <<general_messages, eco_game_messages>>
                           [] ctx_handlers[h].kind = "general" ->
                                 /\ general_messages' = rolling_append(general_messages, entry)
                                 /\ UNCHANGED <<cog_messages, eco_game_messages>>
                           [] OTHER ->
                                 /\ eco_game_messages' = rolling_append(eco_game_messages, entry)
                                 /\ UNCHANGED <<cog_messages, general_messages>>
       /\ UNCHANGED <<channel_history, ctx_arrivals, ctx_log>>
       /\ UNCHANGED nonContextVars

NextContext ==
    \/ ctx_receive
    \/ ctx_history_fetched
    \/ ctx_relayed
SpecContext == InitContext /\ [][NextContext]_vars

\* C19: under every interleaving of handlers and tasks, each RollingContext
\* holds at most 15 entries.
C19_ContextsBounded ==
    /\ Len(cog_messages) <= 15
    /\ Len(general_messages) <= 15
    /\ Len(eco_game_messages) <= 15

\* ------------------- SpecFraming: Username/Content Framing, text by text
\* a text of n characters c
repeat(c, n) == [i \in 1..n |-> c]
\* sender names: plain, with an asterisk, ending in a colon, padded, empty,
\* absent, and plain ones around the length the fallback pattern accepts
FramingNames ==
    {<<"B", "o">>, <<"a", "*", "b">>, <<"a", ":">>, <<" ", "a">>, <<>>, None}
        \cup {repeat("a", n) : n \in {49, 50, 51}}
FramingContents == {<<"h", "i">>, <<"x", ":", " ", "y">>, <<" ", "h", "i">>, <<>>}
\* the writers of a text: format_with_username ('**Name**: content'), the
\* MotorTown relay ('**Name:** content'), a plain 'Name: content', no name at
\* all; the Eco relay puts a timestamp token in front
FramingInputs ==
    {i \in [name : FramingNames, content : FramingContents,
            shape : {"format", "motortown", "plain", "bare"}, stamped : BOOLEAN] :
        i.name = None => i.shape \in {"format", "bare"}}
\* '<t:12:t> '
EcoTimestamp == <<"<", "t", ":", "1", "2", ":", "t", ">", " ">>

InitFraming ==
    /\ framing_input \in FramingInputs
    /\ framing_raw = Unset /\ framing_parsed = NotParsed
    /\ CogsIdle /\ LimiterIdle /\ RadioIdle /\ SplitIdle /\ LanguageIdle /\ ToolsIdle

\* the text is written
frame_text ==
    /\ framing_input.shape # "none" /\ framing_raw = Unset
    /\ LET i == framing_input
           text == CASE i.shape = "format" -> format_with_username(i.name, i.content, FALSE)
                     [] i.shape = "motortown" ->
                            <<"*", "*">> \o i.name \o <<":", "*", "*", " ">> \o i.content
                     [] i.shape = "plain" -> framed(i.name, i.content)
                     [] OTHER -> i.content
       IN  framing_raw' = (IF i.stamped THEN EcoTimestamp ELSE <<>>) \o text
    /\ UNCHANGED <<framing_input, framing_parsed>>
    /\ UNCHANGED <<cogVars, limiterVars, radioVars, splitVars, languageVars, toolsVars>>

\* the text is read back
extract_text ==
    /\ framing_raw # Unset /\ framing_parsed = NotParsed
    /\ framing_parsed' = extract_username_and_content(framing_raw)
    /\ UNCHANGED <<framing_input, framing_raw>>
    /\ UNCHANGED <<cogVars, limiterVars, radioVars, splitVars, languageVars, toolsVars>>

NextFraming ==
    \/ frame_text
    \/ extract_text
SpecFraming == InitFraming /\ [][NextFraming]_vars

\* a text without a colon holds no leading name pattern
NoNamePattern(c) == \A k \in 1..Len(c) : c[k] # ":"

\* a display name or a content as Discord delivers it: not absent, no
\* whitespace around it
Trimmed(t) == t # None /\ (t # <<>> => t[1] # " " /\ t[Len(t)] # " ")

\* C21: a name N and a content C without a leading name pattern, framed by
\* format_with_username(N, C, False) and read back by
\* extract_username_and_content, come back as exactly (N, C).  (Stated for
\* non-empty names and for texts without whitespace around them.)
C21_FramingRoundTrip ==
    (/\ framing_parsed # NotParsed
     /\ framing_input.shape = "format" /\ ~framing_input.stamped
     /\ Trimmed(framing_input.name) /\ framing_input.name # <<>>
     /\ Trimmed(framing_input.content)
     /\ NoNamePattern(framing_input.content))
        => framing_parsed = [username |-> framing_input.name,
                             content |-> framing_input.content]

\* a name of letters only
PlainName(n) == n # None /\ n # <<>> /\ \A k \in 1..Len(n) : n[k] \in {"B", "o", "a"}
\* what the claim says extract returns for the text written from input i, when
\* the generic fallback accepts names of up to `longest` characters: the
\* timestamp token does not count; '**Name:** content' and '**Name**: content'
\* give the name between the asterisks, and ':**' is tried before '**:';
\* 'Name: content' gives the name when it is short enough; otherwise the name
\* is absent and the content is the text (without its timestamp token)
ExtractsAsOrdered(i, parsed, longest) ==
    LET stripped == strip(i.content)
        unstamped(t) == IF i.stamped THEN drop(t, leading_space(t)) ELSE t
    IN  /\ (PlainName(i.name) /\ i.shape \in {"motortown", "format"})
               => parsed = [username |-> i.name, content |-> stripped]
        /\ (i.name = <<"a", ":">> /\ i.shape = "format")
               => parsed = [username |-> <<"a">>, content |-> strip(<<":", " ">> \o i.content)]
        /\ (PlainName(i.name) /\ i.shape = "plain")
               => parsed = (IF Len(i.name) <= longest
                            THEN [username |-> i.name, content |-> stripped]
                            ELSE [username |-> None,
                                  content |-> i.name \o <<":", " ">> \o i.content])
        /\ (i.shape = "bare" /\ NoNamePattern(i.content))
               => parsed = [username |-> None, content |-> unstamped(i.content)]
        /\ (i.shape = "bare" /\ i.content = <<"x", ":", " ", "y">>)
               => parsed = [username |-> <<"x">>, content |-> <<"y">>]

\* C22 as claimed: extract strips the timestamp token, tries '**Name:** ',
\* '**Name**: ' and the generic 'Name: ' in this order, the first match
\* winning; the generic fallback accepts a name of up to and including 50
\* characters; without a match the name is absent and the content is the input.
C22_FallbackAcceptsFifty ==
    framing_parsed # NotParsed => ExtractsAsOrdered(framing_input, framing_parsed, 50)
\* C22 as amended: the same, the generic fallback accepting a name of at most
\* 49 characters and rejecting one of 50 or more.
C22_ExtractOrdered ==
    framing_parsed # NotParsed => ExtractsAsOrdered(framing_input, framing_parsed, 49)
\* a plain 'Name: content' with a name of exactly 50 characters, behind a
\* timestamp token, was read: no name, the whole text as content
C22_Witness ==
    /\ framing_input.shape = "plain" /\ framing_input.stamped
    /\ framing_input.name # None /\ Len(framing_input.name) = 50
    /\ framing_input.content = <<"h", "i">>
    /\ framing_parsed = [username |-> None, content |-> SubSeq(framing_raw, 10, Len(framing_raw))]

\* ----------------------------------------- SpecLimiter: utils.RateLimiter
\* largest max_calls of a limiter
MaxCalls == 3
\* checks of one SpecLimiter behaviour
MaxChecks == 5
\* last minute of the clock
MaxClock == 6

\* [c for c in calls if keep(c)]
select(calls, keep(_)) ==
    LET RECURSIVE sel(_)
        sel(k) == IF k = 0 THEN <<>>
                  ELSE IF keep(calls[k]) THEN Append(sel(k - 1), calls[k])
                  ELSE sel(k - 1)
    IN  sel(Len(calls))
\* min(calls)
oldest_call(calls) == CHOOSE c \in {calls[k] : k \in DOMAIN calls} :
                          \A k \in DOMAIN calls : c <= calls[k]

\* variant: a call made exactly one period ago still counts
RateLimiter_check_inclusive(l, at) ==
    LET live(c) == c >= at - l.period
        calls == select(l.calls, live)
    IN  IF Len(calls) >= l.max_calls
        THEN [limiter |-> [l EXCEPT !.calls = calls], allowed |-> FALSE,
              wait |-> (oldest_call(calls) + l.period) - at]
        ELSE [limiter |-> [l EXCEPT !.calls = Append(calls, at)], allowed |-> TRUE,
              wait |-> None]
\* RateLimiter.check(): the limiter after the call and the tuple returned
RateLimiter_check(l, at) ==
    LET live(c) == c > at - l.period
        calls == select(l.calls, live)
    IN  IF Len(calls) >= l.max_calls
        THEN [limiter |-> [l EXCEPT !.calls = calls], allowed |-> FALSE,
              wait |-> (oldest_call(calls) + l.period) - at]
        ELSE [limiter |-> [l EXCEPT !.calls = Append(calls, at)], allowed |-> TRUE,
              wait |-> None]

\* RateLimiter(max_calls, period_minutes), no call made
InitLimiter ==
    /\ \E m \in 1..MaxCalls, p \in {2, 5} :
          limiter = [max_calls |-> m, period |-> p, calls |-> <<>>]
    /\ clock = 0 /\ checks = <<>>
    /\ CogsIdle /\ FramingIdle /\ RadioIdle /\ SplitIdle /\ LanguageIdle /\ ToolsIdle

\* time passes
limiter_tick ==
    /\ limiter.max_calls > 0 /\ clock < MaxClock
    /\ clock' = clock + 1
    /\ UNCHANGED <<limiter, checks>>
    /\ UNCHANGED <<cogVars, framingVars, radioVars, splitVars, languageVars, toolsVars>>

limiter_check ==
    /\ limiter.max_calls > 0 /\ Len(checks) < MaxChecks
    /\ LET r == RateLimiter_check(limiter, clock)
       IN  /\ limiter' = r.limiter
           /\ checks' = Append(checks, [at |-> clock, allowed |-> r.allowed, wait |-> r.wait])
    /\ UNCHANGED clock
    /\ UNCHANGED <<cogVars, framingVars, radioVars, splitVars, languageVars, toolsVars>>

NextLimiter ==
    \/ limiter_tick
    \/ limiter_check
SpecLimiter == InitLimiter /\ [][NextLimiter]_vars

\* accepted checks among the first n made inside the window (t - period, t]
AcceptedInWindow(n, t) ==
    {k \in 1..n : checks[k].allowed /\ checks[k].at > t - limiter.period
                                    /\ checks[k].at <= t}

\* C23: from an empty limiter the first max_calls checks succeed; a check is
\* rejected exactly when max_calls accepted calls are inside the window that
\* ends at the check, it then gets a strictly positive wait (the time until
\* the oldest of them leaves the window) and is not recorded; and at most
\* max_calls accepted calls lie inside any window of length period.
C23_SlidingWindow ==
    /\ \A k \in DOMAIN checks :
          LET before == AcceptedInWindow(k - 1, checks[k].at)
          IN  /\ k <= limiter.max_calls => checks[k].allowed
              /\ checks[k].allowed <=> Cardinality(before) < limiter.max_calls
              /\ ~checks[k].allowed =>
                    /\ checks[k].wait > 0
                    /\ \E j \in before :
                          /\ \A i \in before : checks[j].at <= checks[i].at
                          /\ checks[k].wait = (checks[j].at + limiter.period) - checks[k].at
    /\ \A t \in 0..clock :
          Cardinality(AcceptedInWindow(Len(checks), t)) <= limiter.max_calls
    /\ checks # <<>> =>
          Len(limiter.calls) = Cardinality(AcceptedInWindow(Len(checks), checks[Len(checks)].at))
\* max=3, window=5 min: checks at minutes 0, 1, 2 succeeded, the check at
\* minute 3 was rejected with 2 minutes to wait, the check at minute 5 succeeded
C23_Witness ==
    /\ limiter.max_calls = 3 /\ limiter.period = 5 /\ Len(checks) = 5
    /\ \A k \in 1..3 : checks[k].at = k - 1 /\ checks[k].allowed
    /\ checks[4].at = 3 /\ ~checks[4].allowed /\ checks[4].wait = 2
    /\ checks[5].at = 5 /\ checks[5].allowed
    /\ limiter.calls = <<1, 2, 5>>

\* -------------------------------------------- SpecRadio: RadioCog.request_song
\* request_song calls of one SpecRadio behaviour
MaxRequests == 3
\* last minute of the radio clock
MaxMinutes == 10

\* deque(maxlen=10)
RECENT_LIMIT == 10
\* `if duration > 600`
MAX_DURATION == 600
\* timedelta(minutes=5), timedelta(minutes=10)
SHORT_WINDOW == 5
LONG_WINDOW == 10

lower_char(c) ==
    IF \E i \in 1..26 : UpperCase[i] = c
    THEN LowerCase[CHOOSE i \in 1..26 : UpperCase[i] = c]
    ELSE c
\* str.lower()
lower(s) == [i \in 1..Len(s) |-> lower_char(s[i])]
\* re.sub(r"[^a-zA-Z0-9]", "_", s)
safe_name(s) ==
    [i \in 1..Len(s) |->
        IF \/ \E k \in 1..26 : s[i] \in {LowerCase[k], UpperCase[k]}
           \/ s[i] \in {"0", "1", "2", "3", "4", "5", "6", "7", "8", "9"}
        THEN s[i] ELSE "_"]
\* f"{REQUESTS_PATH}/{base_filename}.mp3"
request_file(requester, title) ==
    [dir |-> "REQUESTS_PATH",
     name |-> safe_name(requester) \o <<"-">> \o safe_name(title) \o <<".", "m", "p", "3">>]
\* title.lower().strip()
normalized(title) == strip(lower(title))
\* deque.append under maxlen
recent_append(queue, title) ==
    IF Len(queue) >= RECENT_LIMIT THEN Append(Tail(queue), title) ELSE Append(queue, title)

Ann == <<"A", "n", "n">>
Chips == <<"C", "h", "i", "p", "s">>
SongLink == <<"s", "o", "n", "g">>
\* the calls made: by a listener, by a DJ (bypass_throttling), for a refused
\* link, by a requester who is not allowed
SongCalls ==
    {[requester |-> Ann, link |-> SongLink, bypass |-> FALSE],
     [requester |-> Ann, link |-> SongLink, bypass |-> TRUE],
     [requester |-> Ann, link |-> <<"G", "i", "v", "e", " ", "y", "o", "u", " ", "u", "p">>,
      bypass |-> FALSE],
     [requester |-> Chips, link |-> SongLink, bypass |-> FALSE]}
\* resolved by yt_dlp: a title (two of them differ in case and padding only)
\* and a duration, or nothing
SongInfos ==
    {[found |-> TRUE, title |-> <<"S", "o", "n", "g">>, duration |-> 120],
     [found |-> TRUE, title |-> <<"s", "o", "n", "g", " ">>, duration |-> 120],
     [found |-> TRUE, title |-> <<"M", "i", "x", "!">>, duration |-> 700],
     [found |-> FALSE, title |-> <<>>, duration |-> 0]}
\* a sequence without its k-th element
without(seq, k) == SubSeq(seq, 1, k - 1) \o SubSeq(seq, k + 1, Len(seq))
\* the n-th earlier title
EarlierTitle(n) == <<"O", "l", "d", <<"1", "2">>[n]>>
\* the download a returned call made
Download(requester, bypass, title, at) ==
    [requester |-> requester, bypass |-> bypass, title |-> title,
     file |-> request_file(requester, title), now |-> at]

\* RadioCog.__init__, or the state after Ann's first two requests, made and
\* served one after the other at minute 0
InitRadio ==
    /\ \E n \in {0, 2} :
          /\ user_requests = (Ann :> [k \in 1..n |-> 0])
          /\ recent_song_queue = [k \in 1..n |-> EarlierTitle(k)]
          /\ downloads = [k \in 1..n |-> Download(Ann, FALSE, EarlierTitle(k), 0)]
    /\ song_requests = <<>> /\ song_calls = 0 /\ song_ended = {}
    /\ radio_now = 0 /\ lq_pushes = <<>>
    /\ CogsIdle /\ FramingIdle /\ LimiterIdle /\ SplitIdle /\ LanguageIdle /\ ToolsIdle

\* five minutes pass
radio_tick ==
    /\ DOMAIN user_requests # {}
    /\ radio_now + SHORT_WINDOW <= MaxMinutes
    /\ radio_now' = radio_now + SHORT_WINDOW
    /\ UNCHANGED <<user_requests, recent_song_queue, song_requests, song_calls,
                   song_ended, downloads, lq_pushes>>
    /\ UNCHANGED <<cogVars, framingVars, limiterVars, splitVars, languageVars, toolsVars>>

\* self.user_requests.setdefault(requester, [])
requests_of(requester) ==
    IF requester \in DOMAIN user_requests THEN user_requests[requester] ELSE <<>>

\* how the code before the first await ends: a raise, or the wait for
\* ydl.extract_info
throttle_check(kept, at, bypass) ==
    LET last_5 == Len(select(kept, LAMBDA t : t > at - SHORT_WINDOW))
        last_10 == Len(kept)
    IN  IF ~bypass /\ last_5 >= 3 THEN "throttled_5"
        ELSE IF ~bypass /\ last_10 >= 5 THEN "throttled_10"
        ELSE "info"

\* request_song up to `await asyncio.to_thread(ydl.extract_info, ...)`
request_song ==
    /\ DOMAIN user_requests # {} /\ song_calls < MaxRequests
    /\ song_calls' = song_calls + 1
    /\ \E call \in SongCalls :
          LET kept == select(requests_of(call.requester),
                             LAMBDA t : t > radio_now - LONG_WINDOW)
              throttle == throttle_check(kept, radio_now, call.bypass)
              pc == IF throttle # "info" THEN throttle
                    ELSE IF contains(strip(lower(call.requester)), <<"c", "h", "i", "p", "s">>)
                    THEN "not_allowed"
                    ELSE IF contains(strip(lower(call.link)),
                                     <<"g", "i", "v", "e", " ", "y", "o", "u", " ", "u", "p">>)
                    THEN "refused"
                    ELSE "info"
          IN  /\ user_requests' =
                    [r \in DOMAIN user_requests \cup {call.requester} |->
                        IF r = call.requester THEN kept ELSE user_requests[r]]
              /\ IF pc = "info"
                 THEN /\ song_requests' = Append(song_requests,
                             [requester |-> call.requester, link |-> call.link,
                              bypass |-> call.bypass, now |-> radio_now, pc |-> pc,
                              title |-> <<>>])
                      /\ UNCHANGED song_ended
                 ELSE /\ song_ended' = song_ended \cup {pc}
                      /\ UNCHANGED song_requests
    /\ UNCHANGED <<recent_song_queue, radio_now, downloads, lq_pushes>>
    /\ UNCHANGED <<cogVars, framingVars, limiterVars, splitVars, languageVars, toolsVars>>

\* the recent-queue test of lines 425-430
queued_recently(title, queue) ==
    \E k \in 1..Len(queue) : normalized(queue[k]) = normalized(title)

\* extract_info returns or raises; the checks; up to `await ... ydl.download`
info_extracted ==
    \E k \in DOMAIN song_requests, info \in SongInfos :
       /\ song_requests[k].pc = "info"
       /\ LET pc == IF ~info.found THEN "not_found"
                    ELSE IF queued_recently(info.title, recent_song_queue) THEN "duplicate"
                    ELSE IF info.duration > MAX_DURATION THEN "too_long"
                    ELSE "download"
          IN  IF pc = "download"
              THEN /\ song_requests' = [song_requests EXCEPT ![k].pc = pc,
                                                             ![k].title = info.title]
                   /\ UNCHANGED song_ended
              ELSE /\ song_requests' = without(song_requests, k)
                   /\ song_ended' = song_ended \cup {pc}
       /\ UNCHANGED <<user_requests, recent_song_queue, song_calls, radio_now,
                      downloads, lq_pushes>>
       /\ UNCHANGED <<cogVars, framingVars, limiterVars, splitVars, languageVars, toolsVars>>

\* ydl.download returns or raises; lines 476-479
song_downloaded ==
    \E k \in DOMAIN song_requests, ok \in BOOLEAN :
       LET q == song_requests[k]
       IN  /\ q.pc = "download"
           /\ IF ok
              THEN /\ downloads' = Append(downloads,
                                          Download(q.requester, q.bypass, q.title, q.now))
                   /\ user_requests' = [user_requests EXCEPT
                                           ![q.requester] = Append(@, q.now)]
                   /\ recent_song_queue' = recent_append(recent_song_queue, q.title)
                   /\ song_ended' = song_ended \cup {"returned"}
              ELSE /\ song_ended' = song_ended \cup {"download_failed"}
                   /\ UNCHANGED <<downloads, user_requests, recent_song_queue>>
           /\ song_requests' = without(song_requests, k)
           /\ UNCHANGED <<song_calls, radio_now, lq_pushes>>
           /\ UNCHANGED <<cogVars, framingVars, limiterVars, splitVars, languageVars, toolsVars>>

NextRadio ==
    \/ radio_tick
    \/ request_song
    \/ info_extracted
    \/ song_downloaded
SpecRadio == InitRadio /\ [][NextRadio]_vars

\* downloads made for non-bypass calls of requester r accepted in (t - w, t]
AcceptedWithin(r, t, w) ==
    {k \in DOMAIN downloads :
        /\ downloads[k].requester = r /\ ~downloads[k].bypass
        /\ downloads[k].now > t - w /\ downloads[k].now <= t}

\* C24: under any interleaving of request_song calls by one requester without
\* bypass, at most 3 are accepted (downloaded) within any 5 minutes and at most
\* 5 within any 10 minutes.
C24_ThrottledPerRequester ==
    \A r \in DOMAIN user_requests, t \in 0..radio_now :
        /\ Cardinality(AcceptedWithin(r, t, 5)) <= 3
        /\ Cardinality(AcceptedWithin(r, t, 10)) <= 5

\* C25: a title is never downloaded and queued again while it is among the 10
\* most recently queued titles (compared lower-cased and trimmed).
C25_NoRecentTitleTwice ==
    \A i, j \in DOMAIN recent_song_queue :
        i # j => strip(lower(recent_song_queue[i])) # strip(lower(recent_song_queue[j]))

\* C27: once a request_song call has returned, each downloaded file
\* REQUESTS_PATH/<safe_requester>-<safe_title>.mp3 has been pushed to the
\* 'song_requests' queue exactly once.
C27_PushedExactlyOnce ==
    "returned" \in song_ended =>
        \A d \in DOMAIN downloads :
            Cardinality({k \in DOMAIN lq_pushes :
                            lq_pushes[k] = [queue |-> "song_requests",
                                            uri |-> downloads[d].file]}) = 1

\* --------------------------------------- SpecSplit: text_utils.split_markdown
\* longest text handed to split_markdown
MaxTextLen == 7

\* text.count of the code fence (three backticks; the backtick is written "~"
\* here): occurrences that do not overlap, from the left
RECURSIVE count_fences(_)
count_fences(text) ==
    IF Len(text) < 3 THEN 0
    ELSE IF SubSeq(text, 1, 3) = <<"~", "~", "~">> THEN 1 + count_fences(drop(text, 3))
    ELSE count_fences(Tail(text))
is_code_block_open(text) == count_fences(text) % 2 = 1

\* end of the match of \n\s*\n that starts at i (0: no match there): the last
\* newline of the whitespace run after s[i]
delimiter_end(s, i) ==
    LET run == {j \in i..Len(s) : \A k \in (i + 1)..j : s[k] \in Whitespace}
        ends == {j \in run : j > i /\ s[j] = "\n"}
    IN  IF s[i] = "\n" /\ ends # {}
        THEN CHOOSE j \in ends : \A k \in ends : k <= j
        ELSE 0
\* re.split(r"(\n\s*\n)", text): the paragraphs and, between them, the delimiters
RECURSIVE split_paragraphs(_)
split_paragraphs(text) ==
    LET starts == {i \in 1..Len(text) : delimiter_end(text, i) # 0}
    IN  IF starts = {} THEN <<text>>
        ELSE LET i == SeqMin(starts)
                 j == delimiter_end(text, i)
             IN  <<SubSeq(text, 1, i - 1), SubSeq(text, i, j)>>
                     \o split_paragraphs(drop(text, j))

\* the loop of lines 19-32 from part k on, then lines 35-38
RECURSIVE split_from(_, _, _, _, _)
split_from(parts, k, chunks, current_chunk, max_length) ==
    IF k > Len(parts)
    THEN IF current_chunk # <<>>
         THEN Append(chunks, IF is_code_block_open(current_chunk)
                             THEN current_chunk \o <<"\n", "~", "~", "~">>
                             ELSE current_chunk)
         ELSE chunks
    ELSE IF Len(current_chunk) + Len(parts[k]) > max_length
    THEN IF is_code_block_open(current_chunk)
         THEN split_from(parts, k + 1,
                         Append(chunks, current_chunk \o <<"\n", "~", "~", "~">>),
                         <<"~", "~", "~", "\n">> \o parts[k], max_length)
         ELSE split_from(parts, k + 1, Append(chunks, current_chunk), parts[k], max_length)
    ELSE split_from(parts, k + 1, chunks, current_chunk \o parts[k], max_length)
split_markdown(text, max_length) ==
    split_from(split_paragraphs(text), 1, <<>>, <<>>, max_length)

\* texts of letters, backticks ("~") and newlines
SplitTexts == UNION {[1..n -> {"a", "~", "\n"}] : n \in 0..MaxTextLen}

InitSplit ==
    /\ split_input \in [text : SplitTexts, max_length : {5}]
    /\ split_chunks = Unset
    /\ CogsIdle /\ FramingIdle /\ LimiterIdle /\ RadioIdle /\ LanguageIdle /\ ToolsIdle

split_text ==
    /\ split_input.max_length > 0 /\ split_chunks = Unset
    /\ split_chunks' = split_markdown(split_input.text, split_input.max_length)
    /\ UNCHANGED split_input
    /\ UNCHANGED <<cogVars, framingVars, limiterVars, radioVars, languageVars, toolsVars>>

NextSplit == split_text
SpecSplit == InitSplit /\ [][NextSplit]_vars

\* C26: every chunk split_markdown(text, max_length) returns has at most
\* max_length characters, also when a code block is closed at the end of one
\* chunk and reopened at the start of the next.
C26_ChunksWithinMaxLength ==
    split_chunks # Unset =>
        \A k \in DOMAIN split_chunks : Len(split_chunks[k]) <= split_input.max_length

\* ------------------------- SpecLanguage: set-language and the context menus
\* users of one SpecLanguage behaviour
MaxUsers == 2

SUPPORTED_LANGUAGES == {"English", "Chinese", "Indonesian", "Thai", "Vietnamese", "Japanese"}
\* discord.Locale values with a language of their own
LOCALE_TO_LANGUAGE ==
    [l \in {"th", "zh-CN", "zh-TW", "id", "vi", "ja"} |->
        CASE l = "th" -> "Thai"
          [] l \in {"zh-CN", "zh-TW"} -> "Chinese"
          [] l = "id" -> "Indonesian"
          [] l = "vi" -> "Vietnamese"
          [] OTHER -> "Japanese"]
\* interaction.locale: the mapped ones and two that are not
Locales == DOMAIN LOCALE_TO_LANGUAGE \cup {"en-US", "fr"}

\* Database.get_user_language: the saved language, or None (written "")
db_get_user_language(user) ==
    IF user \in DOMAIN user_language_preferences
    THEN user_language_preferences[user] ELSE ""
\* TranslationCog.get_user_language
get_user_language(user) ==
    IF db_get_user_language(user) # "" THEN db_get_user_language(user) ELSE "English"
\* lines 641-643 and 671-673
resolve_target(user, locale) ==
    IF get_user_language(user) = "English" /\ locale \in DOMAIN LOCALE_TO_LANGUAGE
    THEN LOCALE_TO_LANGUAGE[locale]
    ELSE get_user_language(user)

\* no user has saved a language
InitLanguage ==
    /\ user_language_preferences = <<>>
    /\ resolved = [user |-> 0, locale |-> "", saved |-> "", target_lang |-> ""]
    /\ CogsIdle /\ RestIdle

\* /set-language: the upsert succeeds or raises inside set_user_language
set_language ==
    /\ \E user \in 1..MaxUsers, language \in SUPPORTED_LANGUAGES, ok \in BOOLEAN :
          user_language_preferences' =
              IF ok
              THEN [u \in DOMAIN user_language_preferences \cup {user} |->
                       IF u = user THEN language ELSE user_language_preferences[u]]
              ELSE user_language_preferences
    /\ UNCHANGED resolved
    /\ UNCHANGED <<cogVars, restVars>>

\* 'Translate Message' / 'Translate Batch': the target language is resolved
translate_menu ==
    /\ \E user \in 1..MaxUsers, locale \in Locales :
          resolved' = [user |-> user, locale |-> locale,
                       saved |-> db_get_user_language(user),
                       target_lang |-> resolve_target(user, locale)]
    /\ UNCHANGED user_language_preferences
    /\ UNCHANGED <<cogVars, restVars>>

NextLanguage ==
    \/ set_language
    \/ translate_menu
SpecLanguage == InitLanguage /\ [][NextLanguage]_vars

\* C28: the target language of a context-menu translation is the language the
\* user saved with set-language, whenever there is one; the language of the
\* interaction locale when nothing is saved; English when neither gives one.
C28_SavedThenLocaleThenEnglish ==
    resolved.target_lang # "" =>
        resolved.target_lang =
            (IF resolved.saved # "" THEN resolved.saved
             ELSE IF resolved.locale \in {"th", "zh-CN", "zh-TW", "id", "vi", "ja"}
             THEN LOCALE_TO_LANGUAGE[resolved.locale]
             ELSE "English")

\* ------------------------------------------ the in-game /bot rate limit
\* C29 (checked under SpecAgent): at most BOT_RATE_LIMIT_MAX in-game /bot
\* queries are accepted within a window of BOT_RATE_LIMIT_PERIOD minutes: once
\* a query has been recorded or has reached the model, the accepted queries
\* inside the window, this one included, number at most BOT_RATE_LIMIT_MAX.
C29_AtMostHundredAccepted ==
    (/\ handler = "on_message" /\ hpc # "start"
     /\ \/ llm_calls > 0
        \/ (bot_calls # <<>> /\ bot_calls[Len(bot_calls)] = now))
        => Cardinality({k \in DOMAIN bot_calls :
                           bot_calls[k] > now - BOT_RATE_LIMIT_PERIOD}) <= BOT_RATE_LIMIT_MAX

\* ------------------------------------------------- the codebase tools
\* A location is the sequence of the components of an absolute path, each
\* component a text; the file tree the tools run on:
\*   /w/ab          the repository root (repo_path)
\*   /w/ab/s/f      a file of the repository
\*   /w/ab/big      a file of more than 1MB
\*   /w/ab/.git     an excluded directory
\*   /w/ab/l -> /e, /w/ab/m -> /w/abc, /w/ab/i -> /w/ab/s    symlinks
\*   /w/abc/k       a file of a sibling directory
\*   /e/p           a file elsewhere
repo_path == << <<"w">>, <<"a", "b">> >>
Directories ==
    {<<>>, << <<"w">> >>, repo_path,
     repo_path \o << <<"s">> >>, repo_path \o << <<".", "g", "i", "t">> >>,
     << <<"w">>, <<"a", "b", "c">> >>, << <<"e">> >>}
Files ==
    {repo_path \o << <<"s">>, <<"f">> >>, repo_path \o << <<"b", "i", "g">> >>,
     << <<"w">>, <<"a", "b", "c">>, <<"k">> >>, << <<"e">>, <<"p">> >>}
Symlinks ==
    [link \in {repo_path \o << <<"l">> >>, repo_path \o << <<"m">> >>,
               repo_path \o << <<"i">> >>} |->
        IF link[3] = <<"l">> THEN << <<"e">> >>
        ELSE IF link[3] = <<"m">> THEN << <<"w">>, <<"a", "b", "c">> >>
        ELSE repo_path \o << <<"s">> >>]
LargeFiles == {repo_path \o << <<"b", "i", "g">> >>}
exclude_patterns == {<<".", "g", "i", "t">>}

\* the components of a path text: split at '/', empty and '.' components dropped
RECURSIVE path_parts(_)
path_parts(text) ==
    IF text = <<>> THEN <<>>
    ELSE LET slashes == {i \in 1..Len(text) : text[i] = "/"}
             k == IF slashes = {} THEN Len(text) + 1
                  ELSE CHOOSE i \in slashes : \A j \in slashes : i <= j
             head == SubSeq(text, 1, k - 1)
             rest == path_parts(SubSeq(text, k + 1, Len(text)))
         IN  IF head \in {<<>>, <<".">>} THEN rest ELSE <<head>> \o rest
\* self.repo_path / path: an absolute path replaces the left operand
joinpath(base, path) ==
    IF startswith(path, <<"/">>) THEN path_parts(path) ELSE base \o path_parts(path)
\* Path.resolve(): '..' goes to the parent of the location resolved so far,
\* a symlink is replaced by its target, a missing component is kept
RECURSIVE resolve_from(_, _)
resolve_from(done, rest) ==
    IF rest = <<>> THEN done
    ELSE IF Head(rest) = <<".", ".">>
    THEN resolve_from(SubSeq(done, 1, Len(done) - 1), Tail(rest))
    ELSE LET next == Append(done, Head(rest))
         IN  resolve_from(IF next \in DOMAIN Symlinks THEN Symlinks[next] ELSE next,
                          Tail(rest))
resolve(location) == resolve_from(<<>>, location)
\* str(path)
RECURSIVE str_path(_)
str_path(location) ==
    IF location = <<>> THEN <<"/">>
    ELSE IF Len(location) = 1 THEN <<"/">> \o location[1]
    ELSE str_path(SubSeq(location, 1, Len(location) - 1))
             \o <<"/">> \o location[Len(location)]
\* the entries of a directory, and everything below it (rglob does not descend
\* into a symlink)
iterdir(dir) ==
    {l \in Directories \cup Files \cup DOMAIN Symlinks :
        Len(l) = Len(dir) + 1 /\ SubSeq(l, 1, Len(dir)) = dir}
rglob(dir) ==
    {l \in Directories \cup Files \cup DOMAIN Symlinks :
        Len(l) > Len(dir) /\ SubSeq(l, 1, Len(dir)) = dir}

\* the path arguments the model hands over
ToolPaths ==
    {<<>>, <<".">>, <<"s">>, <<"s", "/", "f">>, <<"b", "i", "g">>, <<"x">>,
     <<".", ".">>, <<".", ".", "/", "a", "b", "/", "s", "/", "f">>,
     <<".", ".", "/", "a", "b", "c">>, <<".", ".", "/", "a", "b", "c", "/", "k">>,
     <<".", ".", "/", "x">>,
     <<"s", "/", ".", ".", "/", ".", ".", "/", ".", ".", "/", "e", "/", "p">>,
     <<"/", "e", "/", "p">>, <<"/", "e">>, <<"/", "w", "/", "a", "b", "/", "s">>,
     <<"/", "w", "/", "a", "b", "c", "/", "k">>,
     <<"l">>, <<"l", "/", "p">>, <<"m">>, <<"m", "/", "k">>, <<"i">>, <<"i", "/", "f">>}

\* read_file up to the read itself: [kind, location], kind "content" when the
\* file is read
read_file_result(path, io) ==
    LET file_path == resolve(joinpath(repo_path, path)) IN
    IF ~ startswith(str_path(file_path), str_path(resolve(repo_path)))
    THEN [kind |-> "outside", location |-> file_path, entries |-> {}]
    ELSE IF file_path \notin Directories \cup Files
    THEN [kind |-> "does_not_exist", location |-> file_path, entries |-> {}]
    ELSE IF file_path \notin Files
    THEN [kind |-> "not_a_file", location |-> file_path, entries |-> {}]
    ELSE IF file_path \in LargeFiles
    THEN [kind |-> "too_large", location |-> file_path, entries |-> {}]
    ELSE IF io = "raises"
    THEN [kind |-> "error", location |-> file_path, entries |-> {}]
    ELSE [kind |-> "content", location |-> file_path, entries |-> {}]
\* list_directory: kind "listing" with the entries listed
list_directory_result(path, recursive, io) ==
    LET dir_path == resolve(joinpath(repo_path, path)) IN
    IF ~ startswith(str_path(dir_path), str_path(resolve(repo_path)))
    THEN [kind |-> "outside", location |-> dir_path, entries |-> {}]
    ELSE IF dir_path \notin Directories \cup Files
    THEN [kind |-> "does_not_exist", location |-> dir_path, entries |-> {}]
    ELSE IF dir_path \notin Directories
    THEN [kind |-> "not_a_directory", location |-> dir_path, entries |-> {}]
    ELSE IF io = "raises"
    THEN [kind |-> "error", location |-> dir_path, entries |-> {}]
    ELSE [kind |-> "listing", location |-> dir_path,
          entries |-> IF recursive
                      THEN {l \in rglob(dir_path) :
                               \A k \in 1..Len(l) : l[k] \notin exclude_patterns}
                      ELSE {l \in iterdir(dir_path) :
                               l[Len(l)] \notin exclude_patterns}]

InitTools ==
    /\ ToolsIdle
    /\ CogsIdle /\ FramingIdle /\ LimiterIdle /\ RadioIdle /\ SplitIdle /\ LanguageIdle

read_file ==
    /\ \E path \in ToolPaths, io \in {"ok", "raises"} :
          LET r == read_file_result(path, io) IN
          /\ tools_call' = [tool |-> "read_file", path |-> path, recursive |-> FALSE]
          /\ tools_result' = r
          /\ tools_accessed' = IF r.kind = "content"
                               THEN tools_accessed \cup {r.location}
                               ELSE tools_accessed
    /\ UNCHANGED <<cogVars, framingVars, limiterVars, radioVars, splitVars, languageVars>>

list_directory ==
    /\ \E path \in ToolPaths, recursive \in BOOLEAN, io \in {"ok", "raises"} :
          LET r == list_directory_result(path, recursive, io) IN
          /\ tools_call' = [tool |-> "list_directory", path |-> path,
                            recursive |-> recursive]
          /\ tools_result' = r
          /\ tools_accessed' = IF r.kind = "listing"
                               THEN tools_accessed \cup {r.location}
                               ELSE tools_accessed
    /\ UNCHANGED <<cogVars, framingVars, limiterVars, radioVars, splitVars, languageVars>>

NextTools ==
    \/ read_file
    \/ list_directory
SpecTools == InitTools /\ [][NextTools]_vars

\* the location is the repository root or a descendant of it
within_repo(location) ==
    /\ Len(location) >= Len(repo_path)
    /\ SubSeq(location, 1, Len(repo_path)) = repo_path

\* C30: read_file and list_directory read or list only locations that are the
\* repository root or inside it: a call whose path argument resolves anywhere
\* else returns no content and no listing.
C30_OnlyInsideRepository ==
    /\ \A location \in tools_accessed : within_repo(location)
    /\ tools_result.kind \in {"content", "listing"} => within_repo(tools_result.location)

====
